---- MODULE Spec2Model ----
(***************************************************************************)
(* Model of docs/tools/generate_site_pages.py: the static site generator   *)
(* that compiles the theory and wiki page registries into docs/theory and  *)
(* docs/wiki.                                                              *)
(*                                                                         *)
(* Slugs, file names, hrefs and prefixes are strings, concatenated as the   *)
(* f-strings of the source concatenate them; the glob pattern is matched   *)
(* against the characters of a file name.  Section bodies are abbreviated  *)
(* to their first six words and the three non-ASCII characters of the      *)
(* registry are transliterated.  An HTML document is the tree of the       *)
(* elements its markup denotes.                                            *)
(***************************************************************************)
EXTENDS Integers, Sequences, FiniteSets, TLC

\* ------------------------------------------------------------------ bounds
\* Longest list of legend lines, of sections and of references of a page
\* examined on its own.
MaxLines == 3
MaxSections == 2
MaxRefs == 2
\* Number of invocations of the script in one behaviour.
MaxRuns == 2
\* Number of changes the environment makes to the tree between invocations.
MaxEnvOps == 1

\* ------------------------------------------------------- paths and strings
THEORY == "theory"
WIKI == "wiki"
Kinds == {THEORY, WIKI}

DotHtml == ".html"
IndexHtml == "index" \o DotHtml
UpPrefix == "../"
WikiPrefix == "../wiki/"
NoPrefix == ""

\* The characters of each file name an output directory can hold: the names
\* the generator writes (index.html and slug + ".html" for the slugs of the
\* two registries) and the names of the other files considered.
Chars ==
  ("index.html" :> <<"i","n","d","e","x",".","h","t","m","l">>) @@
  ("ds-report.html" :> <<"d","s","-","r","e","p","o","r","t",".","h","t","m","l">>) @@
  ("ds.html" :> <<"d","s",".","h","t","m","l">>) @@
  ("notes.html" :> <<"n","o","t","e","s",".","h","t","m","l">>) @@
  ("vision.html" :> <<"v","i","s","i","o","n",".","h","t","m","l">>) @@
  ("unified-input.html" :> <<"u","n","i","f","i","e","d","-","i","n","p","u","t",".","h","t","m","l">>) @@
  ("structure-and-scope.html" :> <<"s","t","r","u","c","t","u","r","e","-","a","n","d","-","s","c","o","p","e",".","h","t","m","l">>) @@
  ("training-and-emergence.html" :> <<"t","r","a","i","n","i","n","g","-","a","n","d","-","e","m","e","r","g","e","n","c","e",".","h","t","m","l">>) @@
  ("rl-shaping.html" :> <<"r","l","-","s","h","a","p","i","n","g",".","h","t","m","l">>) @@
  ("question-compilation.html" :> <<"q","u","e","s","t","i","o","n","-","c","o","m","p","i","l","a","t","i","o","n",".","h","t","m","l">>) @@
  ("controlled-generation.html" :> <<"c","o","n","t","r","o","l","l","e","d","-","g","e","n","e","r","a","t","i","o","n",".","h","t","m","l">>) @@
  ("decoding.html" :> <<"d","e","c","o","d","i","n","g",".","h","t","m","l">>) @@
  ("correctness-and-closure.html" :> <<"c","o","r","r","e","c","t","n","e","s","s","-","a","n","d","-","c","l","o","s","u","r","e",".","h","t","m","l">>) @@
  ("vm-core.html" :> <<"v","m","-","c","o","r","e",".","h","t","m","l">>) @@
  ("consistency-contract.html" :> <<"c","o","n","s","i","s","t","e","n","c","y","-","c","o","n","t","r","a","c","t",".","h","t","m","l">>) @@
  ("state-space-geometry.html" :> <<"s","t","a","t","e","-","s","p","a","c","e","-","g","e","o","m","e","t","r","y",".","h","t","m","l">>) @@
  ("federated-modules.html" :> <<"f","e","d","e","r","a","t","e","d","-","m","o","d","u","l","e","s",".","h","t","m","l">>) @@
  ("trust-and-transparency.html" :> <<"t","r","u","s","t","-","a","n","d","-","t","r","a","n","s","p","a","r","e","n","c","y",".","h","t","m","l">>) @@
  ("vm.html" :> <<"v","m",".","h","t","m","l">>) @@
  ("vsa.html" :> <<"v","s","a",".","h","t","m","l">>) @@
  ("event-stream.html" :> <<"e","v","e","n","t","-","s","t","r","e","a","m",".","h","t","m","l">>) @@
  ("bounded-closure.html" :> <<"b","o","u","n","d","e","d","-","c","l","o","s","u","r","e",".","h","t","m","l">>) @@
  ("beam-search.html" :> <<"b","e","a","m","-","s","e","a","r","c","h",".","h","t","m","l">>) @@
  ("mdl.html" :> <<"m","d","l",".","h","t","m","l">>) @@
  ("rl.html" :> <<"r","l",".","h","t","m","l">>) @@
  ("schema.html" :> <<"s","c","h","e","m","a",".","h","t","m","l">>) @@
  ("macro-program.html" :> <<"m","a","c","r","o","-","p","r","o","g","r","a","m",".","h","t","m","l">>) @@
  ("macro-token.html" :> <<"m","a","c","r","o","-","t","o","k","e","n",".","h","t","m","l">>) @@
  ("fact-store.html" :> <<"f","a","c","t","-","s","t","o","r","e",".","h","t","m","l">>) @@
  ("fact-id.html" :> <<"f","a","c","t","-","i","d",".","h","t","m","l">>) @@
  ("hypervector.html" :> <<"h","y","p","e","r","v","e","c","t","o","r",".","h","t","m","l">>) @@
  ("binding.html" :> <<"b","i","n","d","i","n","g",".","h","t","m","l">>) @@
  ("bundling.html" :> <<"b","u","n","d","l","i","n","g",".","h","t","m","l">>) @@
  ("canonicalization.html" :> <<"c","a","n","o","n","i","c","a","l","i","z","a","t","i","o","n",".","h","t","m","l">>) @@
  ("context-scope.html" :> <<"c","o","n","t","e","x","t","-","s","c","o","p","e",".","h","t","m","l">>) @@
  ("query-compiler.html" :> <<"q","u","e","r","y","-","c","o","m","p","i","l","e","r",".","h","t","m","l">>) @@
  ("multimodal.html" :> <<"m","u","l","t","i","m","o","d","a","l",".","h","t","m","l">>) @@
  ("symbolic-execution.html" :> <<"s","y","m","b","o","l","i","c","-","e","x","e","c","u","t","i","o","n",".","h","t","m","l">>) @@
  ("federated-learning.html" :> <<"f","e","d","e","r","a","t","e","d","-","l","e","a","r","n","i","n","g",".","h","t","m","l">>) @@
  ("trustworthy-ai.html" :> <<"t","r","u","s","t","w","o","r","t","h","y","-","a","i",".","h","t","m","l">>) @@
  ("llm.html" :> <<"l","l","m",".","h","t","m","l">>) @@
  ("conceptual-spaces.html" :> <<"c","o","n","c","e","p","t","u","a","l","-","s","p","a","c","e","s",".","h","t","m","l">>) @@
  ("program-synthesis.html" :> <<"p","r","o","g","r","a","m","-","s","y","n","t","h","e","s","i","s",".","h","t","m","l">>)

\* Mutants of the glob pattern: "ds-*.html" and "d*.html".
LegacyPrefix_Dash == <<"d","s","-">>
LegacyPrefix_D == <<"d">>

\* THEORY.glob("ds*.html"): the literal text before and after the wildcard.
LegacyPrefix == <<"d","s">>
LegacySuffix == <<".","h","t","m","l">>

StartsWith(s, p) == Len(s) >= Len(p) /\ SubSeq(s, 1, Len(p)) = p
EndsWith(s, p) == Len(s) >= Len(p) /\ SubSeq(s, Len(s) - Len(p) + 1, Len(s)) = p

\* Mutant: the pattern "*.html".
LegacyMatch_AnyHtml(name) == EndsWith(Chars[name], LegacySuffix)

\* fnmatch of a name against prefix*suffix: the wildcard takes what lies
\* between the two literals, possibly nothing.
LegacyMatch(name) ==
  LET s == Chars[name]
  IN /\ Len(s) >= Len(LegacyPrefix) + Len(LegacySuffix)
     /\ StartsWith(s, LegacyPrefix)
     /\ EndsWith(s, LegacySuffix)

\* --------------------------------------------------------------- page model
Page(slug, title, kind, aria, svg, caption, sections, references) ==
  [slug |-> slug, title |-> title, kind |-> kind, aria |-> aria, svg |-> svg,
   caption |-> caption, sections |-> sections, references |-> references]

\* svg_wrap(viewbox, aria, body); body is the number of shape and text
\* elements the joined fragments contain.
svg_wrap(viewbox, aria, body) ==
  [tag |-> "svg", viewBox |-> viewbox, role |-> "img", ariaLabel |-> aria,
   gradients |-> <<"sky", "deep">>, body |-> body]

\* svg_arrow(x1, y1, x2, y2, color): the line and the polygon, whose points
\* are the three formatted coordinate pairs.
svg_arrow(x1, y1, x2, y2, color) ==
  << [tag |-> "line", x1 |-> x1, y1 |-> y1, x2 |-> x2, y2 |-> y2, stroke |-> color],
     [tag |-> "polygon",
      points |-> << <<x2 - 10, y2 - 7>>, <<x2 - 10, y2 + 7>>, <<x2 + 10, y2>> >>,
      fill |-> "#16b879"] >>

\* Mutant: an empty list of lines yields one blank line.
LegendLines_AtLeastOne(lines, x, yy) ==
  IF lines = <<>> THEN << [tag |-> "text", x |-> x + 16, y |-> yy, text |-> ""] >>
  ELSE [k \in 1..Len(lines) |->
          [tag |-> "text", x |-> x + 16, y |-> yy + 18 * (k - 1), text |-> lines[k]]]

\* The loop of svg_legend: one text element per line, yy advancing by 18.
RECURSIVE LegendLines(_, _, _)
LegendLines(lines, x, yy) ==
  IF lines = <<>> THEN <<>>
  ELSE << [tag |-> "text", x |-> x + 16, y |-> yy, text |-> Head(lines)] >>
       \o LegendLines(Tail(lines), x, yy + 18)

\* Mutant: the height counts one line too few.
svg_legend_ShortByOne(x, y, lines) ==
  << [tag |-> "rect", x |-> x, y |-> y, width |-> 360, height |-> 24 + 18 * (Len(lines) - 1)],
     [tag |-> "text", x |-> x + 16, y |-> y + 22, text |-> "Legend"] >>
  \o LegendLines(lines, x, y + 44)

\* svg_legend(x, y, lines): the rectangle, the "Legend" heading and the lines.
svg_legend(x, y, lines) ==
  << [tag |-> "rect", x |-> x, y |-> y, width |-> 360, height |-> 24 + 18 * Len(lines)],
     [tag |-> "text", x |-> x + 16, y |-> y + 22, text |-> "Legend"] >>
  \o LegendLines(lines, x, y + 44)

wiki(slug, title, aria, svg, caption, definition, role, mechanics, further, references) ==
  Page(slug, title, WIKI, aria, svg, caption,
       << <<"Definition", definition>>,
          <<"Role in VSAVM", role>>,
          <<"Mechanics and implications", mechanics>>,
          <<"Further reading", further>> >>,
       references)

\* ----------------------------------------------------------------- registry
build_theory_pages ==
  <<
    Page("vision",
      "System vision", "theory",
      "Diagram of interface, executable VM core, and consistency contract",
      svg_wrap("0 0 900 320", "System vision diagram", 19),
      "The system vision: a familiar interface backed by executable state, with an explicit contract that governs emission.",
      << <<"Overview", "VSAVM aims to keep the ergonomics ...">>,
         <<"Core concepts", "A virtual machine is a state ...">>,
         <<"Runtime story", "Input is normalized into a structured ...">>,
         <<"Boundary behavior", "When budget is insufficient, the system ...">> >>,
      << <<"Virtual machine (Wikipedia)", "https://en.wikipedia.org/wiki/Virtual_machine">>,
         <<"Symbolic execution (Wikipedia)", "https://en.wikipedia.org/wiki/Symbolic_execution">>,
         <<"Consistency (Wikipedia)", "https://en.wikipedia.org/wiki/Consistency">>,
         <<"Non-monotonic logic (SEP)", "https://plato.stanford.edu/entries/logic-nonmonotonic/">> >>),
    Page("unified-input",
      "Unified input representation", "theory",
      "Diagram of event stream and reversible macro units",
      svg_wrap("0 0 900 340", "Unified input representation diagram", 21),
      "A single symbolic substrate supports multimodal inputs while preserving structure, scope, and reversible compression.",
      << <<"Overview", "Multimodality becomes tractable when all inputs ...">>,
         <<"Terminology", "An event has a type and ...">>,
         <<"How it supports reasoning", "Stable structure and scope allow the ...">>,
         <<"Implementation considerations", "Representation fails when boundaries are ambiguous ...">> >>,
      << <<"Event stream processing (Wikipedia)", "https://en.wikipedia.org/wiki/Event_stream_processing">>,
         <<"Tokenization (Wikipedia)", "https://en.wikipedia.org/wiki/Tokenization_(lexical_analysis)">>,
         <<"Multimodal learning (Wikipedia)", "https://en.wikipedia.org/wiki/Multimodal_learning">> >>),
    Page("structure-and-scope",
      "Structural boundaries and scope", "theory",
      "Diagram of nested scopes controlling inference",
      svg_wrap("0 0 900 320", "Scope diagram", 11),
      "Scope makes contradiction detection meaningful by restricting which facts may interact during closure.",
      << <<"Overview", "Correctness claims require scope. Real corpora ...">>,
         <<"Boundaries as signals", "Structural boundaries include headings, paragraphs, lists, ...">>,
         <<"Scope-aware correctness", "A contradiction is defined canonically as ...">>,
         <<"Practical outcomes", "Scope enables conditional reasoning across sources. ...">> >>,
      << <<"Scope (computer science) (Wikipedia)", "https://en.wikipedia.org/wiki/Scope_(computer_science)">>,
         <<"Context (computing) (Wikipedia)", "https://en.wikipedia.org/wiki/Context_(computing)">>,
         <<"Consistency (Wikipedia)", "https://en.wikipedia.org/wiki/Consistency">> >>),
    Page("training-and-emergence",
      "Training and emergent compilation", "theory",
      "Diagram of prediction-search-consolidation loop",
      svg_wrap("0 0 900 320", "Training loop diagram", 17),
      "Compilation emerges when prediction pressure makes compact executable programs the cheapest explanation for recurring patterns.",
      << <<"Overview", "VSAVM treats compilation as a learned ...">>,
         <<"What emerges and why", "Repeated question forms and reasoning moves ...">>,
         <<"Consolidation", "Consolidation is the point where a ...">>,
         <<"Risks and mitigations", "Compression can consolidate spurious patterns if ...">> >>,
      << <<"Minimum description length (Wikipedia)", "https://en.wikipedia.org/wiki/Minimum_description_length">>,
         <<"The MDL Book (Grunwald)", "https://www.grunwald.nl/mdlbook/">>,
         <<"Program synthesis (Wikipedia)", "https://en.wikipedia.org/wiki/Program_synthesis">> >>),
    Page("rl-shaping",
      "RL as shaping for stable choices", "theory",
      "Diagram of candidates, signals, and selection policy",
      svg_wrap("0 0 900 320", "RL shaping diagram", 19),
      "RL provides shaping signals for discrete choices, prioritizing candidates that remain stable under bounded closure.",
      << <<"Overview", "VSAVM uses RL as shaping rather ...">>,
         <<"What is optimized", "The action space is intentionally small: ...">>,
         <<"Signals and discipline", "Bounded closure naturally provides negative feedback ...">>,
         <<"Trade-offs", "Shaping can overfit to a narrow ...">> >>,
      << <<"Reinforcement learning (Wikipedia)", "https://en.wikipedia.org/wiki/Reinforcement_learning">>,
         <<"Sutton & Barto (book)", "http://incompleteideas.net/book/the-book-2nd.html">>,
         <<"Multi-armed bandit (Wikipedia)", "https://en.wikipedia.org/wiki/Multi-armed_bandit">> >>),
    Page("question-compilation",
      "Question compilation pipeline", "theory",
      "Diagram of normalize-retrieve-fill-compile with beam evaluation",
      svg_wrap("0 0 900 340", "Question compilation diagram", 23),
      "Questions are compiled into executable programs through explicit stages, with ambiguity managed by beam evaluation and consistency checks.",
      << <<"Overview", "A question is treated as a ...">>,
         <<"Retrieval and slot filling", "Retrieval uses VSA to propose nearby ...">>,
         <<"Managing ambiguity", "Instead of forcing a single interpretation, ...">>,
         <<"Engineering implications", "Because compilation is explicit, it is ...">> >>,
      << <<"Program synthesis (Wikipedia)", "https://en.wikipedia.org/wiki/Program_synthesis">>,
         <<"Beam search (Wikipedia)", "https://en.wikipedia.org/wiki/Beam_search">>,
         <<"Information retrieval (Wikipedia)", "https://en.wikipedia.org/wiki/Information_retrieval">> >>),
    Page("controlled-generation",
      "Controlled generation with closure gating", "theory",
      "Diagram of proposal, simulation, closure check, acceptance",
      svg_wrap("0 0 900 340", "Controlled generation diagram", 21),
      "Generation is treated as proposal followed by verification: candidates must pass closure-based consistency checks before being emitted.",
      << <<"Overview", "VSAVM does not treat generation as ...">>,
         <<"Candidate sources", "Candidates can come from a discrete ...">>,
         <<"Closure gating", "Before accepting a candidate, the system ...">>,
         <<"Budget as user-controlled effort", "When a user asks the system ...">> >>,
      << <<"Beam search (Wikipedia)", "https://en.wikipedia.org/wiki/Beam_search">>,
         <<"Transitive closure (Wikipedia)", "https://en.wikipedia.org/wiki/Transitive_closure">>,
         <<"Verification and validation (Wikipedia)", "https://en.wikipedia.org/wiki/Verification_and_validation">> >>),
    Page("decoding",
      "Faithful surface realization", "theory",
      "Diagram of VM results mapped to constrained output forms",
      svg_wrap("0 0 900 320", "Decoding diagram", 19),
      "Decoding is a constrained realization: it can choose phrasing, but it must not invent facts beyond the VM state and trace.",
      << <<"Overview", "Decoding is a common place where ...">>,
         <<"What is realized", "The VM can produce a verdict, ...">>,
         <<"Why constraints matter", "Without constraints, a fluent realizer can ...">>,
         <<"Audit and user trust", "Faithful realization supports audit. When the ...">> >>,
      << <<"Natural language generation (Wikipedia)", "https://en.wikipedia.org/wiki/Natural_language_generation">>,
         <<"Explainable AI (Wikipedia)", "https://en.wikipedia.org/wiki/Explainable_artificial_intelligence">>,
         <<"Verification and validation (Wikipedia)", "https://en.wikipedia.org/wiki/Verification_and_validation">> >>),
    Page("correctness-and-closure",
      "Operational correctness via bounded closure", "theory",
      "Diagram of canonicalization, closure, and conflict detection",
      svg_wrap("0 0 900 340", "Correctness diagram", 21),
      "Correctness is operational: canonical facts plus bounded closure plus scope-aware conflict detection define what can be safely emitted.",
      << <<"Overview", "Correctness in VSAVM is not a ...">>,
         <<"Canonical facts and negation", "Contradictions cannot be reliably detected at ...">>,
         <<"Bounded closure and exploration", "Closure applies rules and macro programs ...">>,
         <<"Practical auditing", "A correctness claim is only meaningful ...">> >>,
      << <<"Consistency (Wikipedia)", "https://en.wikipedia.org/wiki/Consistency">>,
         <<"Transitive closure (Wikipedia)", "https://en.wikipedia.org/wiki/Transitive_closure">>,
         <<"Non-monotonic logic (SEP)", "https://plato.stanford.edu/entries/logic-nonmonotonic/">> >>),
    Page("vm-core",
      "The VM core and retrieval interaction", "theory",
      "Diagram of VM components and a retrieval sidecar",
      svg_wrap("0 0 900 340", "VM architecture diagram", 23),
      "A compact VM core remains the authority; retrieval accelerates candidate selection without changing semantics.",
      << <<"Overview", "The VM is the system's semantic ...">>,
         <<"Minimalism and typing", "A small, typed instruction set reduces ...">>,
         <<"How retrieval interacts", "VSA provides similarity-driven shortlists of schemas ...">>,
         <<"Engineering benefits", "The explicit VM core makes it ...">> >>,
      << <<"Symbolic execution (Wikipedia)", "https://en.wikipedia.org/wiki/Symbolic_execution">>,
         <<"Vector symbolic architecture (Wikipedia)", "https://en.wikipedia.org/wiki/Vector_symbolic_architecture">>,
         <<"Execution trace (Wikipedia)", "https://en.wikipedia.org/wiki/Trace_(software)">> >>),
    Page("consistency-contract",
      "Consistency contract and boundary behavior", "theory",
      "Diagram of budgets, closure, and response modes",
      svg_wrap("0 0 900 340", "Contract diagram", 21),
      "The contract makes boundary behavior explicit by tying emission to budgeted closure and named response modes.",
      << <<"Overview", "The consistency contract defines what the ...">>,
         <<"Budgets and monotonicity", "Budgets include depth, branching, steps, and ...">>,
         <<"Response modes", "Strict mode emits only what remains ...">>,
         <<"Auditability", "The contract implies logs and metadata: ...">> >>,
      << <<"Consistency (Wikipedia)", "https://en.wikipedia.org/wiki/Consistency">>,
         <<"Verification and validation (Wikipedia)", "https://en.wikipedia.org/wiki/Verification_and_validation">>,
         <<"Non-monotonic logic (SEP)", "https://plato.stanford.edu/entries/logic-nonmonotonic/">> >>),
    Page("state-space-geometry",
      "State-space geometry and conceptual regions", "theory",
      "Diagram of VM states, transitions, and regions",
      svg_wrap("0 0 900 340", "State space diagram", 17),
      "The relevant geometry is the VM state graph: concepts appear as regions stabilized by constraints, not as points in an embedding space.",
      << <<"Overview", "A geometric interpretation of VSAVM is ...">>,
         <<"Concepts as regions", "A concept is not a single ...">>,
         <<"Two geometries", "VSA provides an auxiliary geometry of ...">>,
         <<"Budgets as resolution", "Budgets define exploration depth and breadth. ...">> >>,
      << <<"Conceptual spaces (Wikipedia)", "https://en.wikipedia.org/wiki/Conceptual_spaces">>,
         <<"State space (Wikipedia)", "https://en.wikipedia.org/wiki/State_space">>,
         <<"Graph traversal (Wikipedia)", "https://en.wikipedia.org/wiki/Graph_traversal">> >>),
    Page("federated-modules",
      "Federated growth of modules", "theory",
      "Diagram of clients aggregating artifacts into a shared library",
      svg_wrap("0 0 900 340", "Federation diagram", 27),
      "Federation shares discrete artifacts such as counts and prototypes and uses health checks to prevent polluted rule libraries.",
      << <<"Overview", "Federation becomes practical when what is ...">>,
         <<"What is shared", "Clients can share filtered discrete statistics, ...">>,
         <<"Governance and safety", "A wrong rule can pollute the ...">>,
         <<"Why modularity helps engineering", "Artifacts can be versioned, rolled back, ...">> >>,
      << <<"Federated learning (Wikipedia)", "https://en.wikipedia.org/wiki/Federated_learning">>,
         <<"Differential privacy (Wikipedia)", "https://en.wikipedia.org/wiki/Differential_privacy">>,
         <<"Knowledge base (Wikipedia)", "https://en.wikipedia.org/wiki/Knowledge_base">> >>),
    Page("trust-and-transparency",
      "Trust and transparency", "theory",
      "Diagram of trace, checks, and disclosure",
      svg_wrap("0 0 900 320", "Trust diagram", 19),
      "Trust is earned by tying outputs to traces and checks and by disclosing budget and mode rather than projecting confidence.",
      << <<"Overview", "Trustworthy behavior is achieved by changing ...">>,
         <<"Reducing hallucinations", "Hallucinations are often failures of emission ...">>,
         <<"Explainability as audit", "Explanations are operational. The system can ...">>,
         <<"Limits and honest uncertainty", "Bounded closure is incomplete by design. ...">> >>,
      << <<"Explainable AI (Wikipedia)", "https://en.wikipedia.org/wiki/Explainable_artificial_intelligence">>,
         <<"Verification and validation (Wikipedia)", "https://en.wikipedia.org/wiki/Verification_and_validation">>,
         <<"AI alignment (Wikipedia)", "https://en.wikipedia.org/wiki/AI_alignment">> >>)
  >>

build_wiki_pages ==
  <<
    wiki("vm",
      "Virtual Machine (VM)",
      "Diagram of VM components: facts, rules, contexts, trace",
      svg_wrap("0 0 900 320", "VM diagram", 17),
      "The VM is the executable core that makes reasoning explicit through state and trace.",
      "A virtual machine is an abstract ...",
      "The VM provides the state that ...",
      "Because the VM state is discrete, ...",
      "Virtual machines and symbolic execution provide ...",
      << <<"Virtual machine (Wikipedia)", "https://en.wikipedia.org/wiki/Virtual_machine">>,
         <<"Symbolic execution (Wikipedia)", "https://en.wikipedia.org/wiki/Symbolic_execution">>,
         <<"Trace (software) (Wikipedia)", "https://en.wikipedia.org/wiki/Trace_(software)">> >>),
    wiki("vsa",
      "Vector Symbolic Architecture (VSA)",
      "Diagram of VSA similarity shortlist feeding VM validation",
      svg_wrap("0 0 900 320", "VSA diagram", 19),
      "VSA accelerates retrieval; the VM validates candidates under the consistency contract.",
      "Vector Symbolic Architecture represents symbols as ...",
      "VSA reduces combinatorial search by shortlisting ...",
      "VSAVM treats VSA output as proposals. ...",
      "Hyperdimensional computing and VSA surveys provide ...",
      << <<"Vector symbolic architecture (Wikipedia)", "https://en.wikipedia.org/wiki/Vector_symbolic_architecture">>,
         <<"Hyperdimensional computing (Wikipedia)", "https://en.wikipedia.org/wiki/Hyperdimensional_computing">>,
         <<"Nearest neighbor search (Wikipedia)", "https://en.wikipedia.org/wiki/Nearest_neighbor_search">> >>),
    wiki("event-stream",
      "Event stream",
      "Diagram of typed events, payload, and context",
      svg_wrap("0 0 900 320", "Event stream diagram", 19),
      "The event stream is the canonical, scoped input substrate for VSAVM.",
      "An event stream is an ordered ...",
      "The event stream unifies text and ...",
      "Structural separators are explicit events that ...",
      "Event stream processing is a broad ...",
      << <<"Event stream processing (Wikipedia)", "https://en.wikipedia.org/wiki/Event_stream_processing">>,
         <<"Tokenization (Wikipedia)", "https://en.wikipedia.org/wiki/Tokenization_(lexical_analysis)">>,
         <<"Scope (computer science) (Wikipedia)", "https://en.wikipedia.org/wiki/Scope_(computer_science)">> >>),
    wiki("bounded-closure",
      "Bounded closure",
      "Diagram of closure under budget and conflict checks",
      svg_wrap("0 0 900 340", "Bounded closure diagram", 19),
      "Bounded closure explores consequences under explicit limits and gates what the system may claim.",
      "Bounded closure is a controlled approximation ...",
      "Bounded closure is the enforcement mechanism ...",
      "Closure requires canonical facts and explicit ...",
      "Bounded closure connects to search, verification, ...",
      << <<"Transitive closure (Wikipedia)", "https://en.wikipedia.org/wiki/Transitive_closure">>,
         <<"Consistency (Wikipedia)", "https://en.wikipedia.org/wiki/Consistency">>,
         <<"Verification and validation (Wikipedia)", "https://en.wikipedia.org/wiki/Verification_and_validation">> >>),
    wiki("beam-search",
      "Beam search",
      "Diagram of keeping top-K branches",
      svg_wrap("0 0 900 320", "Beam search diagram", 23),
      "Beam search maintains multiple candidate branches while keeping computation bounded.",
      "Beam search keeps only a fixed ...",
      "VSAVM uses beam-like strategies for query ...",
      "Beam width impacts the strength of ...",
      "Beam search is widely used in ...",
      << <<"Beam search (Wikipedia)", "https://en.wikipedia.org/wiki/Beam_search">>,
         <<"Heuristic (Wikipedia)", "https://en.wikipedia.org/wiki/Heuristic">>,
         <<"Best-first search (Wikipedia)", "https://en.wikipedia.org/wiki/Best-first_search">> >>),
    wiki("mdl",
      "Minimum Description Length (MDL)",
      "Diagram of balancing fit and complexity",
      svg_wrap("0 0 900 320", "MDL diagram", 13),
      "MDL favors compact executable structure that still explains data, supporting stable macro programs.",
      "MDL is a model selection principle ...",
      "VSAVM uses MDL as pressure for ...",
      "MDL acts as a complexity guardrail. ...",
      "The MDL literature connects compression and ...",
      << <<"Minimum description length (Wikipedia)", "https://en.wikipedia.org/wiki/Minimum_description_length">>,
         <<"The MDL Book (Grunwald)", "https://www.grunwald.nl/mdlbook/">>,
         <<"Occam's razor (Wikipedia)", "https://en.wikipedia.org/wiki/Occam%27s_razor">> >>),
    wiki("rl",
      "Reinforcement Learning (RL)",
      "Diagram of action, feedback, and preference update",
      svg_wrap("0 0 900 320", "RL diagram", 19),
      "RL supplies shaping signals that bias high-level choices toward stable candidates.",
      "Reinforcement learning learns preferences over actions ...",
      "VSAVM uses RL as shaping when ...",
      "The action space is coarse: choose ...",
      "RL is a broad area. VSAVM's ...",
      << <<"Reinforcement learning (Wikipedia)", "https://en.wikipedia.org/wiki/Reinforcement_learning">>,
         <<"Sutton & Barto (book)", "http://incompleteideas.net/book/the-book-2nd.html">>,
         <<"Multi-armed bandit (Wikipedia)", "https://en.wikipedia.org/wiki/Multi-armed_bandit">> >>),
    wiki("schema",
      "Schema",
      "Diagram of schema frame with slots and bindings",
      svg_wrap("0 0 900 320", "Schema diagram", 15),
      "Schemas map paraphrases into structured frames that compile into executable programs.",
      "A schema is a structured representation ...",
      "Schemas are the bridge between language ...",
      "Typed slots reduce branching and improve ...",
      "Schemas appear in cognitive science and ...",
      << <<"Schema (Wikipedia)", "https://en.wikipedia.org/wiki/Schema_(psychology)">>,
         <<"Frame semantics (Wikipedia)", "https://en.wikipedia.org/wiki/Frame_semantics">>,
         <<"Program synthesis (Wikipedia)", "https://en.wikipedia.org/wiki/Program_synthesis">> >>),
    wiki("macro-program",
      "Macro program",
      "Diagram of consolidating steps into a macro",
      svg_wrap("0 0 900 320", "Macro program diagram", 20),
      "Macro programs compress repeated multi-step routines into reusable executable blocks.",
      "A macro program is a consolidated ...",
      "Macro programs reduce the need for ...",
      "Promotion should be constrained by MDL-style ...",
      "Macros and abstraction are common in ...",
      << <<"Abstraction (Wikipedia)", "https://en.wikipedia.org/wiki/Abstraction_(computer_science)">>,
         <<"Program synthesis (Wikipedia)", "https://en.wikipedia.org/wiki/Program_synthesis">>,
         <<"Minimum description length (Wikipedia)", "https://en.wikipedia.org/wiki/Minimum_description_length">> >>),
    wiki("macro-token",
      "Macro token",
      "Diagram of reversible compression from tokens to macro unit",
      svg_wrap("0 0 900 320", "Macro token diagram", 19),
      "Macro tokens compress recurring patterns while preserving deterministic expansion for evaluation and decoding.",
      "A macro token is a compressed ...",
      "Macro tokens help stabilize next-phrase prediction ...",
      "Reversibility is mandatory. If expansion is ...",
      "Macro units relate to tokenization and ...",
      << <<"Tokenization (Wikipedia)", "https://en.wikipedia.org/wiki/Tokenization_(lexical_analysis)">>,
         <<"Data compression (Wikipedia)", "https://en.wikipedia.org/wiki/Data_compression">>,
         <<"Minimum description length (Wikipedia)", "https://en.wikipedia.org/wiki/Minimum_description_length">> >>),
    wiki("fact-store",
      "Fact store",
      "Diagram of canonical fact_id, polarity, and scope",
      svg_wrap("0 0 900 340", "Fact store diagram", 19),
      "The fact store holds canonical claims with explicit polarity and scope to make contradiction checks computable.",
      "A fact store is a structured ...",
      "The fact store is the substrate ...",
      "The key invariants are canonical identifiers, ...",
      "Fact stores are related to knowledge ...",
      << <<"Knowledge base (Wikipedia)", "https://en.wikipedia.org/wiki/Knowledge_base">>,
         <<"Consistency (Wikipedia)", "https://en.wikipedia.org/wiki/Consistency">>,
         <<"Context (computing) (Wikipedia)", "https://en.wikipedia.org/wiki/Context_(computing)">> >>),
    wiki("fact-id",
      "Fact identifier",
      "Diagram of surface forms mapping to canonical ID",
      svg_wrap("0 0 900 320", "Fact identifier diagram", 15),
      "Canonical identifiers turn paraphrase variation into a stable unit for closure and contradiction checks.",
      "A fact identifier is the internal ...",
      "Fact identifiers enable reliable conflict detection: ...",
      "Schemas and canonicalization map surface forms ...",
      "Canonicalization and normal forms underpin the ...",
      << <<"Identifier (Wikipedia)", "https://en.wikipedia.org/wiki/Identifier">>,
         <<"Canonicalization (Wikipedia)", "https://en.wikipedia.org/wiki/Canonicalization">>,
         <<"Normal form (Wikipedia)", "https://en.wikipedia.org/wiki/Normal_form">> >>),
    wiki("hypervector",
      "Hypervector",
      "Diagram of deterministic seed to hypervector pipeline",
      svg_wrap("0 0 900 320", "Hypervector diagram", 19),
      "Hypervectors are deterministic high-dimensional keys used for associative retrieval and structured operations in VSA.",
      "A hypervector is a high-dimensional vector ...",
      "In VSAVM, hypervectors serve as stable ...",
      "Hypervectors are generated deterministically from stable ...",
      "Hyperdimensional computing provides background on why ...",
      << <<"Hyperdimensional computing (Wikipedia)", "https://en.wikipedia.org/wiki/Hyperdimensional_computing">>,
         <<"Hash function (Wikipedia)", "https://en.wikipedia.org/wiki/Hash_function">>,
         <<"Vector symbolic architecture (Wikipedia)", "https://en.wikipedia.org/wiki/Vector_symbolic_architecture">> >>),
    wiki("binding",
      "Binding",
      "Diagram of role and filler bound into composite",
      svg_wrap("0 0 900 320", "Binding diagram", 15),
      "Binding introduces relational structure into VSA representations, enabling slot-aware retrieval.",
      "Binding is a VSA operation that ...",
      "VSAVM can use binding to represent ...",
      "Binding prevents the collapse of structure ...",
      "Different VSA variants implement binding differently, ...",
      << <<"Vector symbolic architecture (Wikipedia)", "https://en.wikipedia.org/wiki/Vector_symbolic_architecture">>,
         <<"Hyperdimensional computing (Wikipedia)", "https://en.wikipedia.org/wiki/Hyperdimensional_computing">>,
         <<"Holographic reduced representation (Wikipedia)", "https://en.wikipedia.org/wiki/Holographic_reduced_representation">> >>),
    wiki("bundling",
      "Bundling",
      "Diagram of aggregating multiple vectors into a prototype",
      svg_wrap("0 0 900 320", "Bundling diagram", 16),
      "Bundling aggregates multiple vectors into a prototype representation used for clustering and schema prototypes.",
      "Bundling is a VSA operation that ...",
      "VSAVM uses bundling to form prototypes ...",
      "Bundling is compatible with federation: prototypes ...",
      "Bundling is one of the simplest ...",
      << <<"Vector symbolic architecture (Wikipedia)", "https://en.wikipedia.org/wiki/Vector_symbolic_architecture">>,
         <<"Hyperdimensional computing (Wikipedia)", "https://en.wikipedia.org/wiki/Hyperdimensional_computing">>,
         <<"Federated learning (Wikipedia)", "https://en.wikipedia.org/wiki/Federated_learning">> >>),
    wiki("canonicalization",
      "Canonicalization",
      "Diagram of surface to canonical mapping",
      svg_wrap("0 0 900 320", "Canonicalization diagram", 19),
      "Canonicalization aligns diverse surface forms into stable internal representations used by closure and conflict detection.",
      "Canonicalization maps multiple representations into a ...",
      "VSAVM relies on canonicalization to detect ...",
      "Canonicalization is guided by schemas and ...",
      "Canonicalization is closely related to normal ...",
      << <<"Canonicalization (Wikipedia)", "https://en.wikipedia.org/wiki/Canonicalization">>,
         <<"Normal form (Wikipedia)", "https://en.wikipedia.org/wiki/Normal_form">>,
         <<"Consistency (Wikipedia)", "https://en.wikipedia.org/wiki/Consistency">> >>),
    wiki("context-scope",
      "Context and scope",
      "Diagram of nested scope boundaries",
      svg_wrap("0 0 900 320", "Scope diagram", 11),
      "Scope boundaries define where a claim holds and where contradictions are meaningful.",
      "Context and scope define the boundary ...",
      "VSAVM uses scope derived from structural ...",
      "Scope is carried through execution as ...",
      "Scope is a standard notion in ...",
      << <<"Scope (computer science) (Wikipedia)", "https://en.wikipedia.org/wiki/Scope_(computer_science)">>,
         <<"Context (computing) (Wikipedia)", "https://en.wikipedia.org/wiki/Context_(computing)">>,
         <<"Consistency (Wikipedia)", "https://en.wikipedia.org/wiki/Consistency">> >>),
    wiki("query-compiler",
      "NL to query compiler",
      "Diagram of question to schema to program",
      svg_wrap("0 0 900 320", "Compiler diagram", 19),
      "Questions become executable programs via schemas, with search and closure validation enforcing correctness.",
      "An NL to query compiler transforms ...",
      "In VSAVM, compilation is central because ...",
      "The compiler retrieves candidate schemas, fills ...",
      "Program synthesis provides a useful analogy: ...",
      << <<"Program synthesis (Wikipedia)", "https://en.wikipedia.org/wiki/Program_synthesis">>,
         <<"Beam search (Wikipedia)", "https://en.wikipedia.org/wiki/Beam_search">>,
         <<"Information retrieval (Wikipedia)", "https://en.wikipedia.org/wiki/Information_retrieval">> >>),
    wiki("multimodal",
      "Multimodal",
      "Diagram of modalities converging into event stream and VM",
      svg_wrap("0 0 900 340", "Multimodal diagram", 23),
      "Multiple modalities converge into a single event stream so the same closure rules apply.",
      "Multimodal processing integrates multiple input or ...",
      "VSAVM is multimodal by representation: all ...",
      "Audio becomes transcript events with timing; ...",
      "Multimodal learning literature is broad. VSAVM's ...",
      << <<"Multimodal learning (Wikipedia)", "https://en.wikipedia.org/wiki/Multimodal_learning">>,
         <<"Event stream processing (Wikipedia)", "https://en.wikipedia.org/wiki/Event_stream_processing">>,
         <<"Computer vision (Wikipedia)", "https://en.wikipedia.org/wiki/Computer_vision">> >>),
    wiki("symbolic-execution",
      "Symbolic execution",
      "Diagram of branching paths and checks",
      svg_wrap("0 0 900 320", "Symbolic execution diagram", 23),
      "Symbolic execution explores multiple branches explicitly and uses constraints to prune inconsistent paths.",
      "Symbolic execution runs programs with symbolic ...",
      "VSAVM uses symbolic execution ideas to ...",
      "Branching makes uncertainty explicit. Robust conclusions ...",
      "Symbolic execution underpins many verification tools. ...",
      << <<"Symbolic execution (Wikipedia)", "https://en.wikipedia.org/wiki/Symbolic_execution">>,
         <<"Program analysis (Wikipedia)", "https://en.wikipedia.org/wiki/Program_analysis">>,
         <<"Constraint satisfaction (Wikipedia)", "https://en.wikipedia.org/wiki/Constraint_satisfaction_problem">> >>),
    wiki("federated-learning",
      "Federated learning",
      "Diagram of clients aggregating artifacts with validation",
      svg_wrap("0 0 900 340", "Federated learning diagram", 27),
      "Federation shares artifacts and applies validation to prevent polluted rule libraries.",
      "Federated learning trains across clients without ...",
      "VSAVM can federate discrete statistics, VSA ...",
      "The main risk is rule pollution. ...",
      "Federated learning is often paired with ...",
      << <<"Federated learning (Wikipedia)", "https://en.wikipedia.org/wiki/Federated_learning">>,
         <<"Differential privacy (Wikipedia)", "https://en.wikipedia.org/wiki/Differential_privacy">>,
         <<"Privacy (Wikipedia)", "https://en.wikipedia.org/wiki/Privacy">> >>),
    wiki("trustworthy-ai",
      "Trustworthy AI",
      "Diagram of trace, checks, and honest output modes",
      svg_wrap("0 0 900 320", "Trustworthy AI diagram", 19),
      "Trust is built by tying outputs to traces and checks and by using explicit output modes.",
      "Trustworthy AI refers to systems that ...",
      "VSAVM approaches trustworthiness by construction: it ...",
      "The system's outputs are classified into ...",
      "Trustworthy AI intersects with explainability, verification, ...",
      << <<"Explainable AI (Wikipedia)", "https://en.wikipedia.org/wiki/Explainable_artificial_intelligence">>,
         <<"Verification and validation (Wikipedia)", "https://en.wikipedia.org/wiki/Verification_and_validation">>,
         <<"AI alignment (Wikipedia)", "https://en.wikipedia.org/wiki/AI_alignment">> >>),
    wiki("llm",
      "Large Language Model (LLM)",
      "Diagram of prompt to continuation with VM gating overlay",
      svg_wrap("0 0 900 320", "LLM diagram", 19),
      "VSAVM keeps LLM-like interaction but conditions continuations on executable state and closure checks.",
      "A large language model is typically ...",
      "VSAVM uses LLM-like prediction as a ...",
      "Fluency proposals are filtered by schema ...",
      "LLMs are a fast-moving field. VSAVM's ...",
      << <<"Large language model (Wikipedia)", "https://en.wikipedia.org/wiki/Large_language_model">>,
         <<"Language model (Wikipedia)", "https://en.wikipedia.org/wiki/Language_model">>,
         <<"Natural language generation (Wikipedia)", "https://en.wikipedia.org/wiki/Natural_language_generation">> >>),
    wiki("consistency-contract",
      "Consistency contract",
      "Diagram of budget, closure, and emission rules",
      svg_wrap("0 0 900 340", "Consistency contract diagram", 19),
      "The contract ties what may be emitted to what was checked under budgeted closure and named modes.",
      "A consistency contract defines when a ...",
      "In VSAVM, the contract is the ...",
      "The contract specifies budgets, closure behavior, ...",
      "Consistency and non-monotonic reasoning provide background. ...",
      << <<"Consistency (Wikipedia)", "https://en.wikipedia.org/wiki/Consistency">>,
         <<"Non-monotonic logic (SEP)", "https://plato.stanford.edu/entries/logic-nonmonotonic/">>,
         <<"Verification and validation (Wikipedia)", "https://en.wikipedia.org/wiki/Verification_and_validation">> >>),
    wiki("conceptual-spaces",
      "Conceptual spaces",
      "Diagram of regions and transitions",
      svg_wrap("0 0 900 340", "Conceptual spaces diagram", 14),
      "Concepts as regions: VSAVM maps this intuition to VM state-space regions rather than to embedding points.",
      "Conceptual spaces model concepts as regions ...",
      "VSAVM uses a two-geometry view: VSA ...",
      "A concept corresponds to a region ...",
      "Conceptual spaces connect cognition and geometry. ...",
      << <<"Conceptual spaces (Wikipedia)", "https://en.wikipedia.org/wiki/Conceptual_spaces">>,
         <<"State space (Wikipedia)", "https://en.wikipedia.org/wiki/State_space">>,
         <<"Graph traversal (Wikipedia)", "https://en.wikipedia.org/wiki/Graph_traversal">> >>),
    wiki("program-synthesis",
      "Program synthesis",
      "Diagram of intent to program via search and validation",
      svg_wrap("0 0 900 340", "Program synthesis diagram", 19),
      "Program synthesis illustrates the propose-and-validate pattern that VSAVM uses for query compilation.",
      "Program synthesis automatically constructs programs that ...",
      "VSAVM query compilation resembles synthesis: candidate ...",
      "Synthesis without validation becomes guesswork. VSAVM's ...",
      "Program synthesis is a large field. ...",
      << <<"Program synthesis (Wikipedia)", "https://en.wikipedia.org/wiki/Program_synthesis">>,
         <<"Search algorithm (Wikipedia)", "https://en.wikipedia.org/wiki/Search_algorithm">>,
         <<"Verification and validation (Wikipedia)", "https://en.wikipedia.org/wiki/Verification_and_validation">> >>)
  >>
\* ---------------------------------------------------------------- rendering
\* Mutant: the shell ignores the prefix it is given.
html_page_NoPrefix(title, content, prefix) ==
  [title |-> title \o " | VSAVM",
   stylesheet |-> "assets/site.css",
   nav |-> << [href |-> "index.html", text |-> "Home"],
              [href |-> "specs.html", text |-> "Specs"],
              [href |-> "theory/index.html", text |-> "Theory"],
              [href |-> "wiki/index.html", text |-> "Wiki"] >>,
   content |-> content,
   footer |-> "VSAVM is an Axiologic Research experiment within the Achilles project."]

html_page(title, content, prefix) ==
  [title |-> title \o " | VSAVM",
   stylesheet |-> prefix \o "assets/site.css",
   nav |-> << [href |-> prefix \o "index.html", text |-> "Home"],
              [href |-> prefix \o "specs.html", text |-> "Specs"],
              [href |-> prefix \o "theory/index.html", text |-> "Theory"],
              [href |-> prefix \o "wiki/index.html", text |-> "Wiki"] >>,
   content |-> content,
   footer |-> "VSAVM is an Axiologic Research experiment within the Achilles project."]

\* Mutant: the sections are emitted last first.
h2_sections_Reversed(sections) ==
  [k \in 1..(2 * Len(sections)) |->
     IF k % 2 = 1 THEN [tag |-> "h2", text |-> sections[Len(sections) + 1 - (k + 1) \div 2][1]]
                  ELSE [tag |-> "p", text |-> sections[Len(sections) + 1 - k \div 2][2]]]

h2_sections(sections) ==
  [k \in 1..(2 * Len(sections)) |->
     IF k % 2 = 1 THEN [tag |-> "h2", text |-> sections[(k + 1) \div 2][1]]
                  ELSE [tag |-> "p", text |-> sections[k \div 2][2]]]

\* Mutant: the links are emitted last first.
references_paragraph_Reversed(references) ==
  << [tag |-> "h2", text |-> "References"],
     [tag |-> "p",
      links |-> [k \in 1..Len(references) |->
                   [href |-> references[Len(references) + 1 - k][2],
                    text |-> references[Len(references) + 1 - k][1]]]] >>

references_paragraph(references) ==
  << [tag |-> "h2", text |-> "References"],
     [tag |-> "p",
      links |-> [k \in 1..Len(references) |->
                   [href |-> references[k][2], text |-> references[k][1]]]] >>

\* Mutant: the links are emitted without the prefix.
related_wiki_paragraph_NoPrefix(prefix) ==
  [tag |-> "p", text |-> "Related wiki pages:",
   links |-> << [href |-> "vm.html", text |-> "VM"],
                [href |-> "event-stream.html", text |-> "event stream"],
                [href |-> "vsa.html", text |-> "VSA"],
                [href |-> "bounded-closure.html", text |-> "bounded closure"],
                [href |-> "consistency-contract.html", text |-> "consistency contract"] >>]

related_wiki_paragraph(prefix) ==
  [tag |-> "p", text |-> "Related wiki pages:",
   links |-> << [href |-> prefix \o "vm.html", text |-> "VM"],
                [href |-> prefix \o "event-stream.html", text |-> "event stream"],
                [href |-> prefix \o "vsa.html", text |-> "VSA"],
                [href |-> prefix \o "bounded-closure.html", text |-> "bounded closure"],
                [href |-> prefix \o "consistency-contract.html", text |-> "consistency contract"] >>]

TheoryIntro ==
  << [tag |-> "p", text |-> "This page is a theory note. It expands the topic in short chapters and defines terminology without duplicating the formal specification documents."],
     [tag |-> "p", text |-> "The diagram has a transparent background and is intended to be read together with the caption and the sections below."] >>

WikiIntro ==
  << [tag |-> "p", text |-> "This wiki entry defines a term used across VSAVM and explains why it matters in the architecture."],
     [tag |-> "p", text |-> "The diagram has a transparent background and highlights the operational meaning of the term inside VSAVM."] >>

\* Mutant: every page gets the wiki variant of the introduction and links.
render_page_OneVariant(page) ==
  LET body == << [tag |-> "h1", text |-> page.title] >>
              \o WikiIntro
              \o << related_wiki_paragraph(NoPrefix) >>
              \o h2_sections(page.sections)
              \o << [tag |-> "figure", class |-> "diagram",
                     children |-> << page.svg,
                                     [tag |-> "figcaption", text |-> page.caption] >>] >>
              \o references_paragraph(page.references)
      prefix == IF page.kind \in {"theory", "wiki"} THEN UpPrefix ELSE NoPrefix
  IN html_page(page.title, body, prefix)

\* Mutant: the heading is taken from the wrong field of the page.
render_page_HeadingFromAria(page) ==
  LET intro == IF page.kind = "theory" THEN TheoryIntro ELSE WikiIntro
      related == IF page.kind = "theory" THEN related_wiki_paragraph(WikiPrefix)
                                         ELSE related_wiki_paragraph(NoPrefix)
      body == << [tag |-> "h1", text |-> page.aria] >>
              \o intro
              \o << related >>
              \o h2_sections(page.sections)
              \o << [tag |-> "figure", class |-> "diagram",
                     children |-> << page.svg,
                                     [tag |-> "figcaption", text |-> page.caption] >>] >>
              \o references_paragraph(page.references)
  IN html_page(page.title, body, UpPrefix)

render_page(page) ==
  LET intro == IF page.kind = "theory" THEN TheoryIntro ELSE WikiIntro
      related == IF page.kind = "theory" THEN related_wiki_paragraph(WikiPrefix)
                                         ELSE related_wiki_paragraph(NoPrefix)
      body == << [tag |-> "h1", text |-> page.title] >>
              \o intro
              \o << related >>
              \o h2_sections(page.sections)
              \o << [tag |-> "figure", class |-> "diagram",
                     children |-> << page.svg,
                                     [tag |-> "figcaption", text |-> page.caption] >>] >>
              \o references_paragraph(page.references)
      prefix == IF page.kind \in {"theory", "wiki"} THEN UpPrefix ELSE NoPrefix
  IN html_page(page.title, body, prefix)

TheoryNote == "Chapters, definitions, mechanisms, and references."
WikiNote == "Definition, role in VSAVM, mechanics, references."

\* Mutant: the card links to the slug without the extension.
Cards_NoExt(pages, note) ==
  [k \in 1..Len(pages) |->
     [tag |-> "a", class |-> "card", href |-> pages[k].slug,
      title |-> pages[k].title, note |-> note]]

\* Mutant: the cards are emitted last page first.
Cards_Reversed(pages, note) ==
  [k \in 1..Len(pages) |->
     [tag |-> "a", class |-> "card", href |-> pages[Len(pages) + 1 - k].slug \o DotHtml,
      title |-> pages[Len(pages) + 1 - k].title, note |-> note]]

Cards(pages, note) ==
  [k \in 1..Len(pages) |->
     [tag |-> "a", class |-> "card", href |-> pages[k].slug \o DotHtml,
      title |-> pages[k].title, note |-> note]]

theory_index(pages) ==
  html_page("Theory",
            << [tag |-> "h1", text |-> "Theory"],
               [tag |-> "p", text |-> "The theory section is written as engineer-friendly notes. ..."],
               [tag |-> "p", text |-> "The goal is to explain mechanisms and trade-offs without duplicating specification text."],
               [tag |-> "div", class |-> "link-grid", children |-> Cards(pages, TheoryNote)] >>,
            UpPrefix)

wiki_index(pages) ==
  html_page("Wiki",
            << [tag |-> "h1", text |-> "Wiki"],
               [tag |-> "p", text |-> "The wiki defines core terms used throughout VSAVM. ..."],
               [tag |-> "div", class |-> "link-grid", children |-> Cards(pages, WikiNote)] >>,
            UpPrefix)

\* --------------------------------------------------------------- file system
\* Content of a file the generator did not produce, and of a file whose
\* write was opened (truncating it) and then failed.
StaleDoc == [raw |-> "stale"]
TruncatedDoc == [raw |-> ""]

DsReportHtml == "ds-report.html"
DsHtml == "ds.html"
NotesHtml == "notes.html"
VisionHtml == "vision.html"
VmHtml == "vm.html"

\* Files a directory may hold before the first invocation.
InitNames == [d \in Kinds |-> IF d = THEORY THEN {DsReportHtml, NotesHtml} ELSE {DsReportHtml}]
\* Files the environment may create, overwrite or remove between invocations.
EnvNames == [d \in Kinds |-> IF d = THEORY THEN {DsHtml, VisionHtml} ELSE {VmHtml}]

Put(f, name, doc) == [n \in (DOMAIN f) \cup {name} |-> IF n = name THEN doc ELSE f[n]]
Remove(f, name) == [n \in (DOMAIN f) \ {name} |-> f[n]]

VARIABLES
  css,           \* docs/assets/site.css exists
  dirs,          \* which of docs/theory, docs/wiki exist
  files,         \* files[d]: name -> content, for each output directory
  pc,            \* position of main()
  pending,       \* names the glob of remove_legacy_theory_pages yielded, not yet unlinked
  theory_pages,  \* local of main()
  wiki_pages,    \* local of main()
  i,             \* index of the page loop
  outcome,       \* exit status and message of the last invocation
  log,           \* file-system calls made by the current invocation, in order,
                 \* a call that raised recorded as such
  pre,           \* css, dirs and files as they were when the invocation started
  direct,        \* this invocation directly followed one that completed
  runs,          \* invocations started
  envOps,        \* environment changes made
  eval           \* a function application examined on its own: the function,
                 \* its arguments and, once applied, its value

vars == <<css, dirs, files, pc, pending, theory_pages, wiki_pages, i, outcome,
          log, pre, direct, runs, envOps, eval>>

fsVars == <<css, dirs, files>>
locals == <<pending, theory_pages, wiki_pages, i>>
ghosts == <<pre, direct, runs, envOps, eval>>

Terminal == {"done", "aborted", "failed"}
NoOutcome == [status |-> -1, message |-> ""]
NoEval == [fn |-> "", args |-> <<>>, done |-> FALSE, value |-> <<>>]

Init ==
  /\ css \in BOOLEAN
  /\ dirs \in SUBSET Kinds
  /\ files \in [Kinds -> UNION {[S -> {StaleDoc}] : S \in SUBSET (InitNames[THEORY] \cup InitNames[WIKI])}]
  /\ \A d \in Kinds : /\ DOMAIN files[d] \subseteq InitNames[d]
                      /\ d \notin dirs => DOMAIN files[d] = {}
  /\ pc = "idle"
  /\ pending = {}
  /\ theory_pages = <<>>
  /\ wiki_pages = <<>>
  /\ i = 0
  /\ outcome = NoOutcome
  /\ log = <<>>
  /\ pre = [css |-> css, dirs |-> dirs, files |-> files]
  /\ direct = FALSE
  /\ runs = 0
  /\ envOps = 0
  /\ eval = NoEval

Call(op, d, name) == [op |-> op, dir |-> d, name |-> name]
Written(d) == {log[k].name : k \in {j \in 1..Len(log) : log[j].op = "write" /\ log[j].dir = d}}
Restrict(f, S) == [n \in (DOMAIN f) \cap S |-> f[n]]

\* An uncaught OSError ends the invocation with a traceback and status 1.
Raise ==
  /\ pc' = "failed"
  /\ outcome' = [status |-> 1, message |-> "OSError"]

\* ------------------------------------------------------------- invocation
\* `if __name__ == "__main__": main()`: a new process, after the previous one
\* has ended.
Start ==
  /\ pc \in {"idle", "done", "aborted"}
  /\ runs < MaxRuns
  /\ runs' = runs + 1
  /\ pc' = "check"
  /\ pending' = {}
  /\ theory_pages' = <<>>
  /\ wiki_pages' = <<>>
  /\ i' = 0
  /\ outcome' = NoOutcome
  /\ log' = <<>>
  /\ pre' = [css |-> css, dirs |-> dirs, files |-> files]
  /\ direct' = (pc = "done")
  /\ UNCHANGED <<fsVars, envOps, eval>>

\* Mutant: a stylesheet that is present is removed by the check.
CheckStylesheet_Consume ==
  /\ pc = "check"
  /\ IF ~css
       THEN /\ pc' = "aborted"
            /\ outcome' = [status |-> 1, message |-> "Expected docs/assets/site.css to exist."]
       ELSE /\ pc' = "mkdir_theory"
            /\ UNCHANGED outcome
  /\ css' = FALSE
  /\ UNCHANGED <<dirs, files, locals, log, ghosts>>

\* Mutant: the missing stylesheet is not fatal.
CheckStylesheet_NoAbort ==
  /\ pc = "check"
  /\ pc' = "mkdir_theory"
  /\ UNCHANGED <<fsVars, locals, outcome, log, ghosts>>

\* if not (ASSETS / "site.css").exists(): raise SystemExit(...)
CheckStylesheet ==
  /\ pc = "check"
  /\ IF ~css
       THEN /\ pc' = "aborted"
            /\ outcome' = [status |-> 1, message |-> "Expected docs/assets/site.css to exist."]
       ELSE /\ pc' = "mkdir_theory"
            /\ UNCHANGED outcome
  /\ UNCHANGED <<fsVars, locals, log, ghosts>>

\* Path.mkdir(parents=True, exist_ok=True)
Mkdir(d, next) ==
  \/ /\ dirs' = dirs \cup {d}
     /\ log' = Append(log, Call("mkdir", d, ""))
     /\ pc' = next
     /\ UNCHANGED <<css, files, locals, outcome, ghosts>>
  \/ /\ Raise
     /\ log' = Append(log, Call("mkdir-failed", d, ""))
     /\ UNCHANGED <<fsVars, locals, ghosts>>

\* Mutant: the wiki directory is created only after the cleanup and the writes
\* have been skipped over, i.e. never.
MkdirTheory_SkipWiki == pc = "mkdir_theory" /\ Mkdir(THEORY, "cleanup")

MkdirTheory == pc = "mkdir_theory" /\ Mkdir(THEORY, "mkdir_wiki")
MkdirWiki == pc = "mkdir_wiki" /\ Mkdir(WIKI, "cleanup")

\* remove_legacy_theory_pages(): the existence test and the directory scan
\* of THEORY.glob("ds*.html").
GlobLegacy ==
  /\ pc = "cleanup"
  /\ IF THEORY \notin dirs
       THEN /\ pc' = "build"
            /\ pending' = {}
       ELSE /\ pc' = "unlink"
            /\ pending' = {n \in DOMAIN files[THEORY] : LegacyMatch(n)}
  /\ UNCHANGED <<fsVars, theory_pages, wiki_pages, i, outcome, log, ghosts>>

\* Mutant: when the scan of the theory directory is exhausted, the matching
\* files of the wiki directory are removed as well.
UnlinkLegacy_AlsoWiki ==
  /\ pc = "unlink"
  /\ \/ /\ pending = {}
        /\ pc' = "build"
        /\ files' = [files EXCEPT ![WIKI] =
                       Restrict(@, {n \in DOMAIN @ : ~LegacyMatch(n)})]
        /\ UNCHANGED <<css, dirs, locals, outcome, log, ghosts>>
     \/ \E n \in pending :
          \/ /\ files' = [files EXCEPT ![THEORY] = Remove(@, n)]
             /\ pending' = pending \ {n}
             /\ log' = Append(log, Call("unlink", THEORY, n))
             /\ UNCHANGED <<css, dirs, pc, theory_pages, wiki_pages, i, outcome, ghosts>>
          \/ /\ Raise
             /\ log' = Append(log, Call("unlink-failed", THEORY, n))
             /\ UNCHANGED <<fsVars, locals, ghosts>>

\* path.unlink(missing_ok=True) for the next path of the scan, whose order
\* the directory decides; the loop ends when the scan is exhausted.
UnlinkLegacy ==
  /\ pc = "unlink"
  /\ \/ /\ pending = {}
        /\ pc' = "build"
        /\ UNCHANGED <<fsVars, locals, outcome, log, ghosts>>
     \/ \E n \in pending :
          \/ /\ files' = [files EXCEPT ![THEORY] = Remove(@, n)]
             /\ pending' = pending \ {n}
             /\ log' = Append(log, Call("unlink", THEORY, n))
             /\ UNCHANGED <<css, dirs, pc, theory_pages, wiki_pages, i, outcome, ghosts>>
          \/ /\ Raise
             /\ log' = Append(log, Call("unlink-failed", THEORY, n))
             /\ UNCHANGED <<fsVars, locals, ghosts>>

\* Mutant: the second theory page has the slug of the first.
BuildPages_DuplicateSlug ==
  /\ pc = "build"
  /\ theory_pages' = [build_theory_pages EXCEPT ![2].slug = build_theory_pages[1].slug]
  /\ wiki_pages' = build_wiki_pages
  /\ pc' = "theory_index"
  /\ UNCHANGED <<fsVars, pending, i, outcome, log, ghosts>>

\* Mutant: the last wiki page has the slug "index".
BuildPages_IndexSlug ==
  /\ pc = "build"
  /\ theory_pages' = build_theory_pages
  /\ wiki_pages' = [build_wiki_pages EXCEPT ![Len(build_wiki_pages)].slug = "index"]
  /\ pc' = "theory_index"
  /\ UNCHANGED <<fsVars, pending, i, outcome, log, ghosts>>

\* theory_pages = build_theory_pages(); wiki_pages = build_wiki_pages()
BuildPages ==
  /\ pc = "build"
  /\ theory_pages' = build_theory_pages
  /\ wiki_pages' = build_wiki_pages
  /\ pc' = "theory_index"
  /\ UNCHANGED <<fsVars, pending, i, outcome, log, ghosts>>

\* Mutant: a failed write restores the tree the invocation started from.
WriteText_Rollback(d, name, doc, next, k) ==
  \/ /\ files' = [files EXCEPT ![d] = Put(@, name, doc)]
     /\ log' = Append(log, Call("write", d, name))
     /\ pc' = next
     /\ i' = k
     /\ UNCHANGED <<css, dirs, pending, theory_pages, wiki_pages, outcome, ghosts>>
  \/ /\ Raise
     /\ files' = pre.files
     /\ log' = Append(log, Call("write-failed", d, name))
     /\ UNCHANGED <<css, dirs, locals, ghosts>>

\* Mutant: a failed write is swallowed and the invocation goes on.
WriteText_Swallow(d, name, doc, next, k) ==
  \/ /\ files' = [files EXCEPT ![d] = Put(@, name, doc)]
     /\ log' = Append(log, Call("write", d, name))
     /\ pc' = next
     /\ i' = k
     /\ UNCHANGED <<css, dirs, pending, theory_pages, wiki_pages, outcome, ghosts>>
  \/ /\ log' = Append(log, Call("write-failed", d, name))
     /\ pc' = next
     /\ i' = k
     /\ UNCHANGED <<fsVars, pending, theory_pages, wiki_pages, outcome, ghosts>>

\* Mutant: an existing file is not rewritten.
WriteText_SkipExisting(d, name, doc, next, k) ==
  \/ /\ files' = IF name \in DOMAIN files[d] THEN files
                                              ELSE [files EXCEPT ![d] = Put(@, name, doc)]
     /\ log' = Append(log, Call("write", d, name))
     /\ pc' = next
     /\ i' = k
     /\ UNCHANGED <<css, dirs, pending, theory_pages, wiki_pages, outcome, ghosts>>
  \/ /\ Raise
     /\ log' = Append(log, Call("write-failed", d, name))
     /\ UNCHANGED <<fsVars, locals, ghosts>>

\* Path.write_text(doc): on success the file holds doc; on failure the file
\* is as it was (open failed) or truncated (the write failed after open).
WriteText(d, name, doc, next, k) ==
  \/ /\ files' = [files EXCEPT ![d] = Put(@, name, doc)]
     /\ log' = Append(log, Call("write", d, name))
     /\ pc' = next
     /\ i' = k
     /\ UNCHANGED <<css, dirs, pending, theory_pages, wiki_pages, outcome, ghosts>>
  \/ /\ Raise
     /\ \/ UNCHANGED files
        \/ files' = [files EXCEPT ![d] = Put(@, name, TruncatedDoc)]
     /\ log' = Append(log, Call("write-failed", d, name))
     /\ UNCHANGED <<css, dirs, locals, ghosts>>

\* (THEORY / "index.html").write_text(html_page("Theory", ..., prefix="../"))
WriteTheoryIndex ==
  /\ pc = "theory_index"
  /\ WriteText(THEORY, IndexHtml, theory_index(theory_pages), "theory_pages", 1)

\* Mutant: the pages are taken from the end of the registry.
WriteTheoryPage_Reverse ==
  /\ pc = "theory_pages"
  /\ IF i > Len(theory_pages)
       THEN /\ pc' = "wiki_index"
            /\ UNCHANGED <<fsVars, locals, outcome, log, ghosts>>
       ELSE WriteText(THEORY, theory_pages[Len(theory_pages) + 1 - i].slug \o DotHtml,
                      render_page(theory_pages[Len(theory_pages) + 1 - i]),
                      "theory_pages", i + 1)

\* Mutant: the theory pages are written into the wiki directory.
WriteTheoryPage_InWiki ==
  /\ pc = "theory_pages"
  /\ IF i > Len(theory_pages)
       THEN /\ pc' = "wiki_index"
            /\ UNCHANGED <<fsVars, locals, outcome, log, ghosts>>
       ELSE WriteText(WIKI, theory_pages[i].slug \o DotHtml, render_page(theory_pages[i]),
                      "theory_pages", i + 1)

\* Mutant: the loop stops one page early.
WriteTheoryPage_OffByOne ==
  /\ pc = "theory_pages"
  /\ IF i >= Len(theory_pages)
       THEN /\ pc' = "wiki_index"
            /\ UNCHANGED <<fsVars, locals, outcome, log, ghosts>>
       ELSE WriteText(THEORY, theory_pages[i].slug \o DotHtml, render_page(theory_pages[i]),
                      "theory_pages", i + 1)

\* for p in theory_pages: (THEORY / f"{p.slug}.html").write_text(render_page(p))
WriteTheoryPage ==
  /\ pc = "theory_pages"
  /\ IF i > Len(theory_pages)
       THEN /\ pc' = "wiki_index"
            /\ UNCHANGED <<fsVars, locals, outcome, log, ghosts>>
       ELSE WriteText(THEORY, theory_pages[i].slug \o DotHtml, render_page(theory_pages[i]),
                      "theory_pages", i + 1)

\* Mutant: the wiki index is written into the theory directory.
WriteWikiIndex_InTheory ==
  /\ pc = "wiki_index"
  /\ WriteText(THEORY, IndexHtml, wiki_index(wiki_pages), "wiki_pages", 1)

\* (WIKI / "index.html").write_text(html_page("Wiki", ..., prefix="../"))
WriteWikiIndex ==
  /\ pc = "wiki_index"
  /\ WriteText(WIKI, IndexHtml, wiki_index(wiki_pages), "wiki_pages", 1)

\* Mutant: the wiki pages are written into the theory directory.
WriteWikiPage_InTheory ==
  /\ pc = "wiki_pages"
  /\ i <= Len(wiki_pages)
  /\ WriteText(THEORY, wiki_pages[i].slug \o DotHtml, render_page(wiki_pages[i]),
               "wiki_pages", i + 1)

\* for p in wiki_pages: (WIKI / f"{p.slug}.html").write_text(render_page(p))
WriteWikiPage ==
  /\ pc = "wiki_pages"
  /\ i <= Len(wiki_pages)
  /\ WriteText(WIKI, wiki_pages[i].slug \o DotHtml, render_page(wiki_pages[i]),
               "wiki_pages", i + 1)

\* main() returns: the process ends with status 0.
Finish ==
  /\ pc = "wiki_pages"
  /\ i > Len(wiki_pages)
  /\ pc' = "done"
  /\ outcome' = [status |-> 0, message |-> ""]
  /\ UNCHANGED <<fsVars, locals, log, ghosts>>

\* -------------------------------------------------------------- environment
\* Between invocations something else creates, overwrites or removes a file
\* of an output directory, or adds or removes the stylesheet.
EnvTouch ==
  /\ pc \in {"done", "aborted"}
  /\ envOps < MaxEnvOps
  /\ envOps' = envOps + 1
  /\ pc' = "idle"
  /\ \/ \E d \in dirs : \E n \in EnvNames[d] :
          /\ \/ /\ n \in DOMAIN files[d]
                /\ files' = [files EXCEPT ![d] = Remove(@, n)]
             \/ /\ n \in DOMAIN files[d] => files[d][n] # StaleDoc
                /\ files' = [files EXCEPT ![d] = Put(@, n, StaleDoc)]
          /\ UNCHANGED <<css, dirs>>
     \/ /\ css' = ~css
        /\ UNCHANGED <<dirs, files>>
  /\ UNCHANGED <<locals, outcome, log, pre, direct, runs, eval>>

Next ==
  \/ Start
  \/ CheckStylesheet
  \/ MkdirTheory
  \/ MkdirWiki
  \/ GlobLegacy
  \/ UnlinkLegacy
  \/ BuildPages
  \/ WriteTheoryIndex
  \/ WriteTheoryPage
  \/ WriteWikiIndex
  \/ WriteWikiPage
  \/ Finish
  \/ EnvTouch

Spec == Init /\ [][Next]_vars

TypeOK ==
  /\ css \in BOOLEAN
  /\ dirs \subseteq Kinds
  /\ pc \in {"idle", "check", "mkdir_theory", "mkdir_wiki", "cleanup", "unlink", "build",
             "theory_index", "theory_pages", "wiki_index", "wiki_pages"} \cup Terminal
  /\ \A d \in Kinds : d \notin dirs => DOMAIN files[d] = {}
  /\ runs \in 0..MaxRuns
  /\ envOps \in 0..MaxEnvOps

\* The steps of main(): the process runs them one after another without
\* waiting for anything, so a started invocation keeps taking steps.
Run ==
  \/ CheckStylesheet
  \/ MkdirTheory
  \/ MkdirWiki
  \/ GlobLegacy
  \/ UnlinkLegacy
  \/ BuildPages
  \/ WriteTheoryIndex
  \/ WriteTheoryPage
  \/ WriteWikiIndex
  \/ WriteWikiPage
  \/ Finish

FairSpec == Spec /\ WF_vars(Run)

\* ------------------------------------------------- functions on their own
\* The rendering functions and the diagram primitives applied to arguments
\* drawn from small sets, apart from any invocation of main().
SeqsUpTo(S, n) == UNION {[1..k -> S] : k \in 0..n}
Coords == {0, 70, 255}
LineTexts == {"Green arrows: primary runtime flow.", "Boxes are subsystems."}
Colors == {"url(#deep)", "#0b6eff"}
SectionPool == {<<"Overview", "A">>, <<"Details", "B">>}
RefPool == {<<"Consistency (Wikipedia)", "https://en.wikipedia.org/wiki/Consistency">>,
            <<"Trace (Wikipedia)", "https://en.wikipedia.org/wiki/Trace_(software)">>}
\* Page.kind is a str: the two kinds of the registries and one that is neither.
KindPool == {THEORY, WIKI, "draft"}

SamplePages ==
  {Page("sample", "Sample title", kd, "Sample diagram description",
        svg_wrap("0 0 900 320", "Sample diagram", 3), "Sample caption", secs, refs) :
     kd \in KindPool, secs \in SeqsUpTo(SectionPool, MaxSections),
     refs \in SeqsUpTo(RefPool, MaxRefs)}
RegisteredPages ==
  {build_theory_pages[k] : k \in 1..Len(build_theory_pages)}
    \cup {build_wiki_pages[k] : k \in 1..Len(build_wiki_pages)}

mainVars == <<css, dirs, files, pc, pending, theory_pages, wiki_pages, i, outcome,
              log, pre, direct, runs, envOps>>
Asked(fn, args) == [fn |-> fn, args |-> args, done |-> FALSE, value |-> <<>>]

PureInit ==
  /\ css = FALSE
  /\ dirs = {}
  /\ files = [d \in Kinds |-> [n \in {} |-> StaleDoc]]
  /\ pc = "idle"
  /\ pending = {}
  /\ theory_pages = <<>>
  /\ wiki_pages = <<>>
  /\ i = 0
  /\ outcome = NoOutcome
  /\ log = <<>>
  /\ pre = [css |-> css, dirs |-> dirs, files |-> files]
  /\ direct = FALSE
  /\ runs = 0
  /\ envOps = 0
  /\ \/ \E x \in Coords, y \in Coords, lines \in SeqsUpTo(LineTexts, MaxLines) :
          eval = Asked("svg_legend", <<x, y, lines>>)
     \/ \E x1 \in Coords, y1 \in Coords, x2 \in Coords, y2 \in Coords, color \in Colors :
          eval = Asked("svg_arrow", <<x1, y1, x2, y2, color>>)
     \/ \E page \in SamplePages \cup RegisteredPages :
          eval = Asked("render_page", <<page>>)

Apply_svg_legend ==
  /\ eval.fn = "svg_legend"
  /\ ~eval.done
  /\ eval' = [eval EXCEPT !.done = TRUE,
                          !.value = svg_legend(eval.args[1], eval.args[2], eval.args[3])]
  /\ UNCHANGED mainVars

Apply_svg_arrow ==
  /\ eval.fn = "svg_arrow"
  /\ ~eval.done
  /\ eval' = [eval EXCEPT !.done = TRUE,
                          !.value = svg_arrow(eval.args[1], eval.args[2], eval.args[3],
                                              eval.args[4], eval.args[5])]
  /\ UNCHANGED mainVars

Apply_render_page ==
  /\ eval.fn = "render_page"
  /\ ~eval.done
  /\ eval' = [eval EXCEPT !.done = TRUE, !.value = render_page(eval.args[1])]
  /\ UNCHANGED mainVars

PureNext ==
  \/ Apply_svg_legend
  \/ Apply_svg_arrow
  \/ Apply_render_page

PureSpec == PureInit /\ [][PureNext]_vars

\* ------------------------------------------------------------------ claims
Running == pc \notin ({"idle"} \cup Terminal)
InRun == pc # "idle"
Tree == [css |-> css, dirs |-> dirs, files |-> files]
Registry(d) == IF d = THEORY THEN build_theory_pages ELSE build_wiki_pages
PageName(p) == p.slug \o DotHtml
PageNames(d) == {PageName(Registry(d)[k]) : k \in 1..Len(Registry(d))}
OutputNames(d) == {IndexHtml} \cup PageNames(d)
WriteCalls == {k \in 1..Len(log) : log[k].op = "write"}
UnlinkCalls == {k \in 1..Len(log) : log[k].op = "unlink"}
Headings(content) == {k \in 1..Len(content) : content[k].tag \in {"h1", "h2"}}
\* The first heading element of a document's content.
TopHeading(doc) ==
  LET H == Headings(doc.content)
  IN doc.content[CHOOSE k \in H : \A j \in H : k <= j]
\* The hrefs of the cards of an index document's link grid.
CardHrefs(doc) ==
  UNION {{doc.content[k].children[j].href : j \in 1..Len(doc.content[k].children)} :
           k \in {m \in 1..Len(doc.content) :
                    doc.content[m].tag = "div" /\ doc.content[m].class = "link-grid"}}
Output == [d \in Kinds |-> Restrict(files[d], Written(d))]

\* A name of the legacy pattern ds*.html: it begins with "ds" and ends with
\* ".html", the two not overlapping.
DsStarHtml(name) ==
  LET s == Chars[name]
      n == Len(s)
  IN /\ n >= 7
     /\ s[1] = "d" /\ s[2] = "s"
     /\ <<s[n - 4], s[n - 3], s[n - 2], s[n - 1], s[n]>> = <<".", "h", "t", "m", "l">>

\* C1: when the stylesheet is missing at the start of main(), the run gets no
\* further than the check, makes no file-system call, and the stylesheet, the
\* directories and the files are as they were before the run.
C1_AbortBeforeMutation ==
  (InRun /\ ~pre.css) =>
    /\ pc \in {"check", "aborted"}
    /\ log = <<>>
    /\ Tree = pre

C1_Witness ==
  /\ pc = "aborted"
  /\ DsReportHtml \in DOMAIN files[THEORY]
  /\ WIKI \notin dirs

\* C2: every started run reaches a terminal outcome; a run ends "done"
\* (status 0, every index and page file written) only with the stylesheet
\* present, ends "aborted" (status 1 and the message naming the stylesheet)
\* exactly when the stylesheet was missing, and with the stylesheet present
\* the only other outcome is a file-system failure.
C2_Terminates ==
  /\ [](Running => <>(pc \in Terminal))
  /\ [](pc = "done" =>
          /\ pre.css
          /\ outcome = [status |-> 0, message |-> ""]
          /\ \A d \in Kinds : OutputNames(d) \subseteq Written(d))
  /\ [](pc = "aborted" =>
          /\ ~pre.css
          /\ outcome.status # 0
          /\ outcome.message = "Expected docs/assets/site.css to exist.")
  /\ [](pc = "failed" => pre.css /\ outcome.message = "OSError")
  /\ []((pc \in Terminal /\ ~pre.css) => pc = "aborted")

C2_Witness ==
  /\ pc = "done"
  /\ runs = 1
  /\ outcome.status = 0
  /\ Len(log) = 2 + 2 + Len(build_theory_pages) + Len(build_wiki_pages)

\* C3: after a successful run each output directory holds index.html and a
\* file slug.html for every page of its registry; the page files the run
\* wrote there are exactly those, as many as the registry has pages.
C3_OneFilePerPage ==
  pc = "done" =>
    \A d \in Kinds :
      /\ IndexHtml \in DOMAIN files[d]
      /\ \A k \in 1..Len(Registry(d)) : PageName(Registry(d)[k]) \in DOMAIN files[d]
      /\ Written(d) \ {IndexHtml} = PageNames(d)
      /\ Cardinality(Written(d) \ {IndexHtml}) = Len(Registry(d))
      /\ Cardinality({k \in WriteCalls : log[k].dir = d /\ log[k].name # IndexHtml})
           = Len(Registry(d))

C3_Witness ==
  /\ pc = "done"
  /\ Cardinality(DOMAIN files[THEORY]) = 1 + Len(build_theory_pages)
  /\ Cardinality(DOMAIN files[WIKI]) > 1 + Len(build_wiki_pages)

\* C4: for every registered page p, once p has been written the file
\* p.slug + ".html" of p's kind directory holds render_page(p), and the first
\* heading of that file is an h1 whose text is p.title.
C4_PageFile ==
  \A d \in Kinds : \A k \in 1..Len(Registry(d)) :
    LET p == Registry(d)[k]
    IN (InRun /\ (PageName(p) \in Written(d) \/ pc = "done")) =>
         /\ p.kind = d
         /\ PageName(p) \in DOMAIN files[d]
         /\ files[d][PageName(p)] = render_page(p)
         /\ TopHeading(files[d][PageName(p)]).tag = "h1"
         /\ TopHeading(files[d][PageName(p)]).text = p.title

C4_Witness ==
  /\ pc = "done"
  /\ TopHeading(files[WIKI][VmHtml]).text = "Virtual Machine (VM)"
  /\ TopHeading(files[THEORY][VisionHtml]).text = "System vision"

\* C5: after a successful run every card href of the theory index and of the
\* wiki index is the name of a file this run wrote into the index's own
\* directory, and each index has a card for every page.
C5_NoDanglingCard ==
  pc = "done" =>
    \A d \in Kinds :
      /\ CardHrefs(files[d][IndexHtml]) \subseteq Written(d) \cap DOMAIN files[d]
      /\ Cardinality(CardHrefs(files[d][IndexHtml])) = Len(Registry(d))

C5_Witness ==
  /\ pc = "done"
  /\ VmHtml \in CardHrefs(files[WIKI][IndexHtml])
  /\ VisionHtml \in CardHrefs(files[THEORY][IndexHtml])
  /\ VmHtml \notin DOMAIN pre.files[WIKI]

\* The output tree the registries determine.
ExpectedOutput ==
  [d \in Kinds |->
     [n \in OutputNames(d) |->
        IF n = IndexHtml
          THEN (IF d = THEORY THEN theory_index(build_theory_pages)
                              ELSE wiki_index(build_wiki_pages))
          ELSE render_page(CHOOSE p \in {Registry(d)[k] : k \in 1..Len(Registry(d))} :
                             PageName(p) = n)]]

\* C6: the files a completed run has written, and their content, are the
\* tree the registries determine, whatever the output directories held when
\* the run started; so any two completed runs write the same files with the
\* same content.
C6_Deterministic ==
  pc = "done" => Output = ExpectedOutput

C6_Witness ==
  /\ pc = "done"
  /\ runs = 2
  /\ envOps = 1
  /\ VisionHtml \in DOMAIN pre.files[THEORY]
  /\ pre.files[THEORY][VisionHtml] = StaleDoc

\* C7: after a successful run no file of the theory directory has a name
\* matching ds*.html, and no file the run wrote has such a name.
C7_NoLegacyLeft ==
  /\ pc = "done" => \A n \in DOMAIN files[THEORY] : ~DsStarHtml(n)
  /\ \A k \in WriteCalls : ~DsStarHtml(log[k].name)

C7_Witness ==
  /\ pc = "done"
  /\ DsReportHtml \in DOMAIN pre.files[THEORY]
  /\ DsReportHtml \notin DOMAIN files[THEORY]
  /\ DsReportHtml \in DOMAIN files[WIKI]

\* C8: throughout a run every file that was in the theory directory before
\* it, with a name not matching ds*.html, still exists, and holds the content
\* it had unless its name is index.html or a registered slug + ".html".
C8_OthersUntouched ==
  InRun =>
    \A n \in DOMAIN pre.files[THEORY] :
      ~DsStarHtml(n) =>
        /\ n \in DOMAIN files[THEORY]
        /\ n \notin OutputNames(THEORY) => files[THEORY][n] = pre.files[THEORY][n]

C8_Witness ==
  /\ pc = "done"
  /\ NotesHtml \in DOMAIN pre.files[THEORY]
  /\ DsReportHtml \in DOMAIN pre.files[THEORY]
  /\ files[THEORY][NotesHtml] = StaleDoc

\* C9: a run that directly follows a completed run leaves the files exactly
\* as that run left them, and unlinks nothing.
C9_Idempotent ==
  (InRun /\ direct) =>
    /\ UnlinkCalls = {}
    /\ pc = "done" => files = pre.files
    /\ \A k \in WriteCalls : files[log[k].dir][log[k].name] = pre.files[log[k].dir][log[k].name]

C9_Witness ==
  /\ pc = "done"
  /\ direct
  /\ runs = 2
  /\ NotesHtml \in DOMAIN files[THEORY]

\* C10 as stated: both index documents are written before any page file.
C10_IndexesBeforePages ==
  \A j \in WriteCalls : \A k \in WriteCalls :
    (log[j].name = IndexHtml /\ log[k].name # IndexHtml) => j < k

\* C10 amended: each kind's index document is written before any page file
\* of that kind, and every theory write precedes every wiki write (so the
\* wiki index follows the theory pages).
C10_IndexBeforeOwnPages ==
  \A j \in WriteCalls : \A k \in WriteCalls :
    /\ (log[j].name = IndexHtml /\ log[k].name # IndexHtml /\ log[j].dir = log[k].dir) => j < k
    /\ (log[j].dir = THEORY /\ log[k].dir = WIKI) => j < k

C10_Witness ==
  /\ pc = "done"
  /\ \E j \in WriteCalls : \E k \in WriteCalls :
       /\ j < k
       /\ log[j].dir = THEORY /\ log[j].name # IndexHtml
       /\ log[k].dir = WIKI /\ log[k].name = IndexHtml

\* ----------------------------------------------------- claims C11 to C20
FailedOps == {"mkdir-failed", "unlink-failed", "write-failed"}
FailedCalls == {k \in 1..Len(log) : log[k].op \in FailedOps}
MkdirCalls(d) == {k \in 1..Len(log) : log[k] = Call("mkdir", d, "")}
\* Unlink and write calls made, whether they succeeded or raised.
UnlinkTries == {k \in 1..Len(log) : log[k].op \in {"unlink", "unlink-failed"}}
WriteTries == {k \in 1..Len(log) : log[k].op \in {"write", "write-failed"}}
LegacyBefore(d) == {n \in DOMAIN pre.files[d] : DsStarHtml(n)}
\* The names of the page files written into d, in the order of the writes.
PageWrites(d) ==
  SelectSeq(log, LAMBDA c : c.op = "write" /\ c.dir = d /\ c.name # IndexHtml)

\* C11: a run unlinks files of the theory directory only; every file the wiki
\* directory held when the run started, the ones named ds*.html included, is
\* still there; and when the theory directory held no file named ds*.html the
\* run makes no unlink call, so none fails, and a run that meets no other
\* failure completes.
C11_CleanupTheoryOnly ==
  InRun =>
    /\ \A k \in UnlinkTries : log[k].dir = THEORY
    /\ DOMAIN pre.files[WIKI] \subseteq DOMAIN files[WIKI]
    /\ LegacyBefore(THEORY) = {} =>
         /\ UnlinkTries = {}
         /\ pc # "unlink" \/ pending = {}

C11_Witness ==
  /\ pc = "done"
  /\ THEORY \in pre.dirs
  /\ LegacyBefore(THEORY) = {}
  /\ NotesHtml \in DOMAIN pre.files[THEORY]
  /\ DsReportHtml \in LegacyBefore(WIKI)
  /\ DsReportHtml \in DOMAIN files[WIKI]
  /\ files[WIKI][DsReportHtml] = StaleDoc
  /\ UnlinkTries = {}

\* C12: when a write has failed, every file the run wrote before it holds
\* the content the run gave it, every file the run unlinked is absent, and
\* some output file has not been written: nothing is rolled back.
C12_NoRollback ==
  (pc = "failed" /\ log[Len(log)].op = "write-failed") =>
    /\ \A k \in WriteCalls :
         /\ log[k].name \in DOMAIN files[log[k].dir]
         /\ files[log[k].dir][log[k].name] = ExpectedOutput[log[k].dir][log[k].name]
    /\ \A k \in UnlinkCalls : log[k].name \notin DOMAIN files[THEORY]
    /\ \E d \in Kinds : ~(OutputNames(d) \subseteq Written(d))

C12_Witness ==
  /\ pc = "failed"
  /\ log[Len(log)] = Call("write-failed", WIKI, IndexHtml)
  /\ UnlinkCalls # {}
  /\ DsReportHtml \in DOMAIN pre.files[THEORY]
  /\ DsReportHtml \notin DOMAIN files[THEORY]
  /\ Written(THEORY) = OutputNames(THEORY)
  /\ files[THEORY][VisionHtml] = ExpectedOutput[THEORY][VisionHtml]
  /\ IndexHtml \notin DOMAIN files[WIKI]

\* C17: every unlink and every write of a run comes after the creation of
\* both output directories, every unlink comes before every write, and a
\* completed run has created both directories.
C17_MkdirUnlinkWrite ==
  InRun =>
    /\ \A k \in UnlinkTries \cup WriteTries :
         \A d \in Kinds : \E m \in MkdirCalls(d) : m < k
    /\ \A u \in UnlinkTries : \A w \in WriteTries : u < w
    /\ pc = "done" => \A d \in Kinds : MkdirCalls(d) # {} /\ d \in dirs

C17_Witness ==
  /\ pc = "done"
  /\ pre.dirs = {THEORY}
  /\ UnlinkCalls # {}
  /\ WriteCalls # {}
  /\ \A u \in UnlinkCalls : \A w \in WriteCalls : 2 < u /\ u < w

\* C18: in each output directory the page files a run has written so far
\* are those of the first pages of the registry, in the registry's order, no
\* file written twice; a completed run has written the file of every page.
C18_RegistryOrder ==
  InRun =>
    \A d \in Kinds :
      LET written == PageWrites(d)
          pages == Registry(d)
      IN /\ Len(written) <= Len(pages)
         /\ \A k \in 1..Len(written) : written[k].name = PageName(pages[k])
         /\ Cardinality({written[k].name : k \in 1..Len(written)}) = Len(written)
         /\ pc = "done" => Len(written) = Len(pages)

C18_Witness ==
  /\ pc = "wiki_pages"
  /\ i = 5
  /\ Len(PageWrites(THEORY)) = Len(build_theory_pages)
  /\ Len(PageWrites(WIKI)) = 4
  /\ PageWrites(WIKI)[4].name = PageName(build_wiki_pages[4])
  /\ PageWrites(THEORY)[2].name = PageName(build_theory_pages[2])

\* C19: a call that raised is the last file-system call of its run: the run
\* makes no call after it, the same call again included, and ends with the
\* error as its outcome; a run ends that way only after such a call.
C19_FailStop ==
  InRun =>
    /\ \A k \in FailedCalls :
         /\ k = Len(log)
         /\ pc = "failed"
         /\ outcome = [status |-> 1, message |-> "OSError"]
    /\ pc = "failed" => FailedCalls # {}

C19_Witness ==
  /\ pc = "failed"
  /\ log[Len(log)] = Call("unlink-failed", THEORY, DsReportHtml)
  /\ DsReportHtml \in DOMAIN files[THEORY]
  /\ WriteTries = {}
  /\ outcome.status = 1

Applied(fn) == eval.fn = fn /\ eval.done
\* The k-th smallest member of a set of positions.
Nth(S, k) == CHOOSE m \in S : Cardinality({j \in S : j <= m}) = k
\* The positions of the section headings of a rendered body: the h2 elements
\* that precede the figure.
SectionHeads(content) ==
  {k \in 1..Len(content) :
     /\ content[k].tag = "h2"
     /\ \E f \in (k + 1)..Len(content) : content[f].tag = "figure"}

\* C13: in the body render_page returns, the section headings are as many
\* as page.sections has entries, the k-th of them carries the heading of the
\* k-th section, and the element right after it is the paragraph with that
\* section's text.
C13_SectionOrder ==
  Applied("render_page") =>
    LET content == eval.value.content
        sections == eval.args[1].sections
        H == SectionHeads(content)
    IN /\ Cardinality(H) = Len(sections)
       /\ \A k \in 1..Len(sections) :
            /\ content[Nth(H, k)] = [tag |-> "h2", text |-> sections[k][1]]
            /\ content[Nth(H, k) + 1] = [tag |-> "p", text |-> sections[k][2]]

C13_Witness ==
  /\ Applied("render_page")
  /\ eval.args[1].sections = << <<"Details", "B">>, <<"Overview", "A">> >>
  /\ \E a \in 1..Len(eval.value.content) : \E b \in 1..Len(eval.value.content) :
       /\ a < b
       /\ eval.value.content[a] = [tag |-> "h2", text |-> "Details"]
       /\ eval.value.content[b] = [tag |-> "h2", text |-> "Overview"]

\* C14: the fragment svg_legend builds from n lines, n >= 0, has exactly one
\* rectangle, of height 24 + 18 * n.
C14_LegendHeight ==
  Applied("svg_legend") =>
    LET R == {k \in 1..Len(eval.value) : eval.value[k].tag = "rect"}
    IN /\ Cardinality(R) = 1
       /\ \A k \in R : eval.value[k].height = 24 + 18 * Len(eval.args[3])

C14_Witness ==
  /\ Applied("svg_legend")
  /\ Len(eval.args[3]) = 2
  /\ eval.value[1].tag = "rect"
  /\ eval.value[1].height = 60

\* C15 as stated: every line of a legend at (x, y) with n >= 1 lines has its
\* text position inside the rectangle, between y and y + 24 + 18 * n.
C15_LinesInsideBox ==
  (Applied("svg_legend") /\ Len(eval.args[3]) >= 1) =>
    \A k \in 3..Len(eval.value) :
      /\ eval.args[2] <= eval.value[k].y
      /\ eval.value[k].y <= eval.args[2] + 24 + 18 * Len(eval.args[3])

\* The last line of a legend lies 2 units below the bottom of its rectangle.
C15_Witness ==
  /\ Applied("svg_legend")
  /\ eval.args[3] # <<>>
  /\ eval.value[Len(eval.value)].y = eval.value[1].y + eval.value[1].height + 2

\* C16 as stated: the points of the polygon svg_arrow draws are the tip
\* (x2, y2) and the two base vertices (x2 - 10, y2 - 7) and (x2 - 10, y2 + 7).
C16_TipAtEnd ==
  Applied("svg_arrow") =>
    LET x2 == eval.args[3]
        y2 == eval.args[4]
        P == {eval.value[2].points[k] : k \in 1..Len(eval.value[2].points)}
    IN P = {<<x2, y2>>, <<x2 - 10, y2 - 7>>, <<x2 - 10, y2 + 7>>}

\* The tip of the polygon lies 10 units past the end of the line.
C16_Witness ==
  /\ Applied("svg_arrow")
  /\ eval.value[1].x2 = eval.args[3]
  /\ eval.value[2].points[3] = <<eval.args[3] + 10, eval.args[4]>>

\* C20: the body render_page returns is, in this order, the h1 with the
\* title, two introductory paragraphs, the paragraph of related links, the
\* heading and paragraph of each section, the figure holding the diagram and
\* then the caption, the "References" heading, and a paragraph with one link
\* per reference, in the order of page.references.
C20_BodyOrder ==
  Applied("render_page") =>
    LET content == eval.value.content
        page == eval.args[1]
        n == Len(page.sections)
        last == content[7 + 2 * n]
    IN /\ Len(content) = 7 + 2 * n
       /\ content[1] = [tag |-> "h1", text |-> page.title]
       /\ \A k \in 2..3 : content[k].tag = "p" /\ DOMAIN content[k] = {"tag", "text"}
       /\ content[4].tag = "p"
       /\ content[4].text = "Related wiki pages:"
       /\ \A k \in 1..n : /\ content[3 + 2 * k].tag = "h2"
                           /\ content[4 + 2 * k].tag = "p"
       /\ content[5 + 2 * n].tag = "figure"
       /\ content[5 + 2 * n].children =
            << page.svg, [tag |-> "figcaption", text |-> page.caption] >>
       /\ content[6 + 2 * n] = [tag |-> "h2", text |-> "References"]
       /\ last.tag = "p"
       /\ Len(last.links) = Len(page.references)
       /\ \A k \in 1..Len(page.references) :
            last.links[k] = [href |-> page.references[k][2], text |-> page.references[k][1]]

C20_Witness ==
  /\ Applied("render_page")
  /\ eval.args[1].slug = "vision"
  /\ Len(eval.args[1].references) = 4
  /\ Len(eval.value.content) = 15
  /\ Len(eval.value.content[15].links) = 4
  /\ eval.value.content[13].tag = "figure"

\* ----------------------------------------------------- claims C21 to C30
\* The segments of the relative URLs the documents carry.
Segments(href) ==
  CASE href = "../index.html" -> <<"..", "index.html">>
    [] href = "../specs.html" -> <<"..", "specs.html">>
    [] href = "../theory/index.html" -> <<"..", "theory", "index.html">>
    [] href = "../wiki/index.html" -> <<"..", "wiki", "index.html">>
    [] href = "../assets/site.css" -> <<"..", "assets", "site.css">>
    [] href = "theory/index.html" -> <<"theory", "index.html">>
    [] href = "wiki/index.html" -> <<"wiki", "index.html">>
    [] href = "assets/site.css" -> <<"assets", "site.css">>
    [] href = "../wiki/vm.html" -> <<"..", "wiki", "vm.html">>
    [] href = "../wiki/event-stream.html" -> <<"..", "wiki", "event-stream.html">>
    [] href = "../wiki/vsa.html" -> <<"..", "wiki", "vsa.html">>
    [] href = "../wiki/bounded-closure.html" -> <<"..", "wiki", "bounded-closure.html">>
    [] href = "../wiki/consistency-contract.html" -> <<"..", "wiki", "consistency-contract.html">>
    [] OTHER -> <<href>>
\* Following the segments from a directory given as a path below docs/.
RECURSIVE Walk(_, _)
Walk(path, segs) ==
  IF segs = <<>> THEN path
  ELSE IF Head(segs) = ".."
         THEN Walk(IF path = <<>> THEN <<>> ELSE SubSeq(path, 1, Len(path) - 1), Tail(segs))
         ELSE Walk(Append(path, Head(segs)), Tail(segs))
\* Where a relative URL of a document of directory d leads, below docs/.
Resolve(d, href) == Walk(<<d>>, Segments(href))
LinkGrid(doc) ==
  doc.content[CHOOSE m \in 1..Len(doc.content) :
                doc.content[m].tag = "div" /\ doc.content[m].class = "link-grid"]
LastCall == log[Len(log)]

\* C21: once a run has written the index document of a directory, that
\* document has one card per page of the directory's registry, the k-th card
\* linking to the k-th page's slug + ".html", showing its title and carrying
\* the note of the kind.
C21_IndexCards ==
  InRun =>
    \A d \in Kinds :
      IndexHtml \in Written(d) =>
        LET cards == LinkGrid(files[d][IndexHtml]).children
            pages == Registry(d)
        IN /\ Len(cards) = Len(pages)
           /\ \A k \in 1..Len(pages) :
                /\ cards[k].href = pages[k].slug \o ".html"
                /\ cards[k].title = pages[k].title
                /\ cards[k].note =
                     (IF d = THEORY THEN "Chapters, definitions, mechanisms, and references."
                                    ELSE "Definition, role in VSAVM, mechanics, references.")

C21_Witness ==
  /\ pc = "done"
  /\ LinkGrid(files[WIKI][IndexHtml]).children[1].href = VmHtml
  /\ LinkGrid(files[WIKI][IndexHtml]).children[1].title = build_wiki_pages[1].title
  /\ LinkGrid(files[THEORY][IndexHtml]).children[1].href = VisionHtml
  /\ LinkGrid(files[THEORY][IndexHtml]).children[1].note
       # LinkGrid(files[WIKI][IndexHtml]).children[1].note
  /\ Len(LinkGrid(files[WIKI][IndexHtml]).children) = 26

\* The navigation links and the stylesheet link of a document of directory d
\* are the five "../" URLs and lead to the targets at the root of docs/.
RootLinks(d, doc) ==
  /\ Len(doc.nav) = 4
  /\ doc.nav[1].href = "../index.html"
  /\ doc.nav[2].href = "../specs.html"
  /\ doc.nav[3].href = "../theory/index.html"
  /\ doc.nav[4].href = "../wiki/index.html"
  /\ doc.stylesheet = "../assets/site.css"
  /\ Resolve(d, doc.nav[1].href) = <<"index.html">>
  /\ Resolve(d, doc.nav[2].href) = <<"specs.html">>
  /\ Resolve(d, doc.nav[3].href) = <<"theory", "index.html">>
  /\ Resolve(d, doc.nav[4].href) = <<"wiki", "index.html">>
  /\ Resolve(d, doc.stylesheet) = <<"assets", "site.css">>

\* C22: the document a run has just written, index or page, of either
\* directory, has the four navigation links and the stylesheet link with the
\* prefix "../", each leading from the document's directory to its target
\* at the root of docs/; so has every document a completed run wrote.
C22_UpPrefix ==
  InRun =>
    /\ (log # <<>> /\ LastCall.op = "write") =>
         RootLinks(LastCall.dir, files[LastCall.dir][LastCall.name])
    /\ pc = "done" =>
         \A d \in Kinds : \A n \in Written(d) : RootLinks(d, files[d][n])

C22_Witness ==
  /\ pc = "wiki_pages"
  /\ i = 2
  /\ LastCall = Call("write", WIKI, VmHtml)
  /\ files[WIKI][VmHtml].nav[3].href = "../theory/index.html"
  /\ Resolve(WIKI, files[WIKI][VmHtml].nav[3].href) = <<THEORY, IndexHtml>>
  /\ files[THEORY][IndexHtml].stylesheet = "../assets/site.css"

\* File names both registries have a page for.
SharedNames == PageNames(THEORY) \cap PageNames(WIKI)
PageOf(d, name) ==
  CHOOSE p \in {Registry(d)[k] : k \in 1..Len(Registry(d))} : PageName(p) = name
Slugs(pages) == {pages[k].slug : k \in 1..Len(pages)}
IndexWrites(d) == {k \in WriteCalls : log[k].dir = d /\ log[k].name = IndexHtml}

\* C24: every page of the theory registry has kind theory and every page of
\* the wiki registry kind wiki; a page file a run writes into a directory is
\* the file of a page of that directory's registry; and for a slug both
\* registries have, each directory's file holds the page of its own kind,
\* the two files differing, the later write leaving the earlier file as it
\* was.
C24_KindPartition ==
  InRun =>
    /\ \A d \in Kinds : \A k \in 1..Len(Registry(d)) : Registry(d)[k].kind = d
    /\ \A k \in WriteCalls :
         log[k].name # IndexHtml => log[k].name \in PageNames(log[k].dir)
    /\ \A n \in SharedNames :
         /\ \A d \in Kinds :
              n \in Written(d) =>
                /\ n \in DOMAIN files[d]
                /\ files[d][n] = render_page(PageOf(d, n))
         /\ (n \in Written(THEORY) /\ n \in Written(WIKI)) =>
              files[THEORY][n] # files[WIKI][n]

C24_Witness ==
  /\ pc = "done"
  /\ SharedNames = {"consistency-contract.html"}
  /\ \A n \in SharedNames :
       /\ n \in Written(THEORY) \cap Written(WIKI)
       /\ TopHeading(files[THEORY][n]).text = PageOf(THEORY, n).title
       /\ TopHeading(files[WIKI][n]).text = PageOf(WIKI, n).title
       /\ files[THEORY][n].content[2] # files[WIKI][n].content[2]

\* C25: the pages main() holds after building the registries have pairwise
\* different slugs within each registry, and no two writes of a run have the
\* same directory and file name.
C25_UniqueSlugs ==
  InRun =>
    /\ Cardinality(Slugs(theory_pages)) = Len(theory_pages)
    /\ Cardinality(Slugs(wiki_pages)) = Len(wiki_pages)
    /\ Cardinality({<<log[k].dir, log[k].name>> : k \in WriteCalls}) = Cardinality(WriteCalls)

C25_Witness ==
  /\ pc = "done"
  /\ Len(theory_pages) = 14
  /\ Len(wiki_pages) = 26
  /\ Cardinality(Slugs(theory_pages)) = 14
  /\ Cardinality(Slugs(wiki_pages)) = 26
  /\ Cardinality(WriteCalls) = 42

\* C27: during a run the stylesheet exists exactly if it existed when the
\* run started; no call of the run is on anything but the two output
\* directories and their files; and past the check the run has aborted
\* exactly if the stylesheet did not exist.
C27_StylesheetExistenceOnly ==
  InRun =>
    /\ css = pre.css
    /\ \A k \in 1..Len(log) : log[k].dir \in Kinds
    /\ pc # "check" => ((pc = "aborted") <=> ~pre.css)

C27_Witness ==
  /\ pc = "done"
  /\ runs = 2
  /\ envOps = 1
  /\ css
  /\ pre.css
  /\ pre.dirs = {}
  /\ pre.files = [d \in Kinds |-> <<>>]

\* C29: no page main() holds has the slug "index"; a run writes the file
\* index.html of a directory at most once; and after a completed run that
\* file is the index document of the directory's kind.
C29_IndexKept ==
  InRun =>
    /\ "index" \notin Slugs(theory_pages) \cup Slugs(wiki_pages)
    /\ \A d \in Kinds : Cardinality(IndexWrites(d)) <= 1
    /\ pc = "done" =>
         \A d \in Kinds :
           /\ Cardinality(IndexWrites(d)) = 1
           /\ files[d][IndexHtml].title = (IF d = THEORY THEN "Theory | VSAVM" ELSE "Wiki | VSAVM")
           /\ TopHeading(files[d][IndexHtml]).text = (IF d = THEORY THEN "Theory" ELSE "Wiki")
           /\ \E m \in 1..Len(files[d][IndexHtml].content) :
                files[d][IndexHtml].content[m].tag = "div"

C29_Witness ==
  /\ pc = "done"
  /\ IndexHtml \in DOMAIN pre.files[THEORY]
  /\ IndexHtml \in DOMAIN pre.files[WIKI]
  /\ files[WIKI][IndexHtml].title = "Wiki | VSAVM"
  /\ files[THEORY][IndexHtml].title = "Theory | VSAVM"
  /\ LastCall.name # IndexHtml

\* The "Related wiki pages:" paragraph of a page document.
RelatedLinks(doc) ==
  doc.content[CHOOSE m \in 1..Len(doc.content) :
                /\ doc.content[m].tag = "p"
                /\ "links" \in DOMAIN doc.content[m]
                /\ doc.content[m].text = "Related wiki pages:"].links

\* C30: after a completed run, each of the five related links of every page
\* file leads, from the file's directory, to a file of docs/wiki that the run
\* wrote for a page of the wiki registry, and the five targets are vm,
\* event-stream, vsa, bounded-closure and consistency-contract.
C30_RelatedResolve ==
  pc = "done" =>
    \A d \in Kinds : \A n \in Written(d) \ {IndexHtml} :
      LET links == RelatedLinks(files[d][n])
          targets == {Resolve(d, links[j].href) : j \in 1..Len(links)}
      IN /\ Len(links) = 5
         /\ targets = {<<"wiki", "vm.html">>, <<"wiki", "event-stream.html">>,
                        <<"wiki", "vsa.html">>, <<"wiki", "bounded-closure.html">>,
                        <<"wiki", "consistency-contract.html">>}
         /\ \A t \in targets :
              /\ t[2] \in Written(WIKI) \cap DOMAIN files[WIKI]
              /\ t[2] \in {wiki_pages[k].slug \o ".html" : k \in 1..Len(wiki_pages)}

C30_Witness ==
  /\ pc = "done"
  /\ RelatedLinks(files[THEORY][VisionHtml])[1].href = "../wiki/vm.html"
  /\ RelatedLinks(files[WIKI][VmHtml])[1].href = "vm.html"
  /\ Resolve(THEORY, "../wiki/vm.html") = Resolve(WIKI, "vm.html")
  /\ VmHtml \in Written(WIKI)
  /\ VmHtml \notin DOMAIN pre.files[WIKI]
  /\ THEORY \notin pre.dirs

RelatedTargets == <<"vm.html", "event-stream.html", "vsa.html", "bounded-closure.html",
                    "consistency-contract.html">>
Hrefs(links) == [k \in 1..Len(links) |-> links[k].href]
\* The diagram of a rendered page: the first child of its figure.
Diagram(doc) ==
  doc.content[CHOOSE m \in 1..Len(doc.content) : doc.content[m].tag = "figure"].children[1]

\* C23: the two paragraphs after the title and the related links of the body
\* render_page returns are the theory introduction and links under
\* "../wiki/" for a page of kind theory, the wiki introduction and links
\* without prefix for a page of kind wiki, one of these two variants for any
\* page; and every registered page has kind theory or wiki.
C23_TwoVariants ==
  Applied("render_page") =>
    LET page == eval.args[1]
        content == eval.value.content
        intro == <<content[2], content[3]>>
        hrefs == Hrefs(RelatedLinks(eval.value))
        theoryVariant ==
          /\ intro = TheoryIntro
          /\ hrefs = [k \in 1..5 |-> "../wiki/" \o RelatedTargets[k]]
        wikiVariant ==
          /\ intro = WikiIntro
          /\ hrefs = RelatedTargets
    IN /\ TheoryIntro # WikiIntro
       /\ page.kind = "theory" => theoryVariant
       /\ page.kind = "wiki" => wikiVariant
       /\ theoryVariant \/ wikiVariant
       /\ page \in RegisteredPages => page.kind \in {"theory", "wiki"}

C23_Witness ==
  /\ Applied("render_page")
  /\ eval.args[1] \in RegisteredPages
  /\ eval.args[1].kind = "theory"
  /\ eval.args[1].slug = "consistency-contract"
  /\ eval.value.content[2] = TheoryIntro[1]
  /\ RelatedLinks(eval.value)[5].href = "../wiki/consistency-contract.html"

\* C26 as stated: for every registered page, the aria-label of the diagram
\* in the rendered page is the page's aria field, and is not empty.
C26_AriaIsLabel ==
  (Applied("render_page") /\ eval.args[1] \in RegisteredPages) =>
    /\ Diagram(eval.value).ariaLabel = eval.args[1].aria
    /\ Diagram(eval.value).ariaLabel # ""

\* A registered page whose diagram carries another label than its aria field.
C26_Witness ==
  /\ Applied("render_page")
  /\ eval.args[1].slug = "vision"
  /\ eval.args[1].aria = "Diagram of interface, executable VM core, and consistency contract"
  /\ Diagram(eval.value).ariaLabel = "System vision diagram"

\* C28: svg_legend applied to an empty list of lines returns the rectangle
\* at (x, y) of height 24 and the "Legend" text, and nothing else.
C28_EmptyLegend ==
  (Applied("svg_legend") /\ eval.args[3] = <<>>) =>
    /\ Len(eval.value) = 2
    /\ eval.value[1] = [tag |-> "rect", x |-> eval.args[1], y |-> eval.args[2],
                         width |-> 360, height |-> 24]
    /\ eval.value[2] = [tag |-> "text", x |-> eval.args[1] + 16, y |-> eval.args[2] + 22,
                         text |-> "Legend"]

C28_Witness ==
  /\ Applied("svg_legend")
  /\ eval.args = <<255, 70, <<>>>>
  /\ Len(eval.value) = 2
  /\ eval.value[2].text = "Legend"

====
